---- MODULE Spec2Model ----
(***************************************************************************)
(* Record linkage and confidence scoring of the Department 56 gallery      *)
(* scraper: the multi-source search (enhanced_sitemap_scraper.py), the     *)
(* confidence calculator (enhanced_confidence.py) and the house-accessory  *)
(* linker (house_accessory_linker.py).                                     *)
(*                                                                         *)
(* Strings are sequences of character codes (ASCII), so that lower(),      *)
(* split(), `in` and the rapidfuzz ratios are computed, not assumed.       *)
(* Scores are exact rationals [n |-> numerator, d |-> denominator].        *)
(***************************************************************************)
EXTENDS Integers, Sequences, FiniteSets, TLC

\* ------------------------------------------------------------------------
\* Integers and exact rationals
\* ------------------------------------------------------------------------
Max2(a, b) == IF a >= b THEN a ELSE b
Min2(a, b) == IF a <= b THEN a ELSE b
Abs(a) == IF a < 0 THEN 0 - a ELSE a

RECURSIVE GCD(_, _)
GCD(a, b) == IF b = 0 THEN a ELSE GCD(b, a % b)

\* The non-negative rational n/d in lowest terms.
Rat(n, d) == LET g == GCD(n, d) IN [n |-> n \div g, d |-> d \div g]
RZero == [n |-> 0, d |-> 1]
ROne == [n |-> 1, d |-> 1]
RAdd(x, y) ==
    LET g == GCD(x.d, y.d)
    IN  Rat(x.n * (y.d \div g) + y.n * (x.d \div g), x.d * (y.d \div g))
RMul(x, y) ==
    LET g1 == GCD(x.n, y.d)
        g2 == GCD(y.n, x.d)
        h1 == IF g1 = 0 THEN 1 ELSE g1
        h2 == IF g2 = 0 THEN 1 ELSE g2
    IN  Rat((x.n \div h1) * (y.n \div h2), (x.d \div h2) * (y.d \div h1))
RDivInt(x, k) == RMul(x, Rat(1, k))

\* Sign of a/b - c/d (a, c >= 0; b, d > 0), by the Euclidean expansion, so
\* that no cross product is formed.
RECURSIVE CmpFrac(_, _, _, _)
CmpFrac(a, b, c, d) ==
    LET q1 == a \div b
        q2 == c \div d
        r1 == a % b
        r2 == c % d
    IN  IF q1 # q2 THEN (IF q1 < q2 THEN -1 ELSE 1)
        ELSE IF r1 = 0 /\ r2 = 0 THEN 0
        ELSE IF r1 = 0 THEN -1
        ELSE IF r2 = 0 THEN 1
        ELSE CmpFrac(d, r2, b, r1)
RCmp(x, y) == CmpFrac(x.n, x.d, y.n, y.d)
RLe(x, y) == RCmp(x, y) <= 0
RLt(x, y) == RCmp(x, y) < 0
RGe(x, y) == RCmp(x, y) >= 0
RGt(x, y) == RCmp(x, y) > 0
RMin(x, y) == IF RLe(x, y) THEN x ELSE y
RMax(x, y) == IF RGe(x, y) THEN x ELSE y

RECURSIVE RSumSeq(_)
RSumSeq(s) == IF s = << >> THEN RZero ELSE RAdd(Head(s), RSumSeq(Tail(s)))
RECURSIVE RMaxSeq(_)
RMaxSeq(s) ==
    IF Len(s) = 1 THEN s[1] ELSE RMax(Head(s), RMaxSeq(Tail(s)))
InUnit(x) == RLe(RZero, x) /\ RLe(x, ROne)

\* ------------------------------------------------------------------------
\* Strings
\* ------------------------------------------------------------------------
\* str.lower() on ASCII.
Lower(s) ==
    [i \in 1..Len(s) |-> IF s[i] >= 65 /\ s[i] <= 90 THEN s[i] + 32 ELSE s[i]]
\* Python's `sub in s`.
Contains(sub, s) ==
    \E i \in 0..(Len(s) - Len(sub)) : SubSeq(s, i + 1, i + Len(sub)) = sub
IsSpace(c) == c \in {9, 10, 11, 12, 13, 32}

\* str.split(): the maximal runs of non-whitespace characters.
RECURSIVE SplitFrom(_, _, _, _)
SplitFrom(s, i, cur, acc) ==
    IF i > Len(s)
    THEN IF cur = << >> THEN acc ELSE Append(acc, cur)
    ELSE IF IsSpace(s[i])
         THEN SplitFrom(s, i + 1, << >>,
                        IF cur = << >> THEN acc ELSE Append(acc, cur))
         ELSE SplitFrom(s, i + 1, Append(cur, s[i]), acc)
Split(s) == SplitFrom(s, 1, << >>, << >>)

\* " ".join(tokens)
RECURSIVE Join(_)
Join(tokens) ==
    IF tokens = << >> THEN << >>
    ELSE IF Len(tokens) = 1 THEN tokens[1]
    ELSE tokens[1] \o <<32>> \o Join(Tail(tokens))

\* Lexicographic order of strings (Python's < on str).
RECURSIVE LexLess(_, _)
LexLess(a, b) ==
    IF b = << >> THEN FALSE
    ELSE IF a = << >> THEN TRUE
    ELSE IF a[1] # b[1] THEN a[1] < b[1]
    ELSE LexLess(Tail(a), Tail(b))

\* sorted(tokens)
RECURSIVE InsertSorted(_, _)
InsertSorted(t, sorted) ==
    IF sorted = << >> THEN <<t>>
    ELSE IF LexLess(t, sorted[1]) THEN <<t>> \o sorted
    ELSE <<sorted[1]>> \o InsertSorted(t, Tail(sorted))
RECURSIVE SortTokens(_)
SortTokens(tokens) ==
    IF tokens = << >> THEN << >>
    ELSE InsertSorted(tokens[1], SortTokens(Tail(tokens)))

SeqToSet(s) == {s[i] : i \in 1..Len(s)}
\* sorted(set): the distinct tokens in ascending order.
RECURSIVE SortSet(_)
SortSet(S) ==
    IF S = {} THEN << >>
    ELSE LET m == CHOOSE x \in S : \A y \in S \ {x} : LexLess(x, y)
         IN  <<m>> \o SortSet(S \ {m})

\* ------------------------------------------------------------------------
\* rapidfuzz.fuzz
\* ------------------------------------------------------------------------
\* Length of the longest common subsequence, row by row.
SetMax(S) == CHOOSE x \in S : \A y \in S : x >= y
\* One row of the LCS table: row[j + 1] is the LCS length of the prefix read
\* so far (ending with c) and the first j characters of s2.
\* (The empty concatenation makes the row a tuple, computed once.)
LcsRow(prev, c, s2) ==
    [j1 \in 1..(Len(s2) + 1) |->
        SetMax({prev[j1]} \cup {prev[k] + 1 : k \in {m \in 1..(j1 - 1) : s2[m] = c}})]
    \o << >>
RECURSIVE LcsRows(_, _, _, _)
LcsRows(s1, s2, i, prev) ==
    IF i > Len(s1) THEN prev[Len(s2) + 1]
    ELSE LcsRows(s1, s2, i + 1, LcsRow(prev, s1[i], s2))
LCS(s1, s2) == LcsRows(s1, s2, 1, [j \in 1..(Len(s2) + 1) |-> 0])

\* Indel distance: insertions and deletions turning s1 into s2.
IndelDistance(s1, s2) == Len(s1) + Len(s2) - 2 * LCS(s1, s2)
\* 100 * (1 - distance / total length); 100 when the total length is 0.
NormSim(dist, lensum) ==
    IF lensum = 0 THEN Rat(100, 1) ELSE Rat(100 * (lensum - dist), lensum)

\* fuzz.ratio
FuzzRatio(s1, s2) == NormSim(IndelDistance(s1, s2), Len(s1) + Len(s2))

\* fuzz.token_sort_ratio
TokenSortRatio(s1, s2) ==
    FuzzRatio(Join(SortTokens(Split(s1))), Join(SortTokens(Split(s2))))

\* fuzz.token_set_ratio
TokenSetRatio(s1, s2) ==
    LET ta == SeqToSet(Split(s1))
        tb == SeqToSet(Split(s2))
        sect == Join(SortSet(ta \cap tb))
        dab == Join(SortSet(ta \ tb))
        dba == Join(SortSet(tb \ ta))
        sectLen == Len(sect)
        sep == IF sectLen > 0 THEN 1 ELSE 0
        sectAbLen == sectLen + sep + Len(dab)
        sectBaLen == sectLen + sep + Len(dba)
        result == NormSim(IndelDistance(dab, dba), sectAbLen + sectBaLen)
        sectAbRatio == NormSim(sep + Len(dab), sectLen + sectAbLen)
        sectBaRatio == NormSim(sep + Len(dba), sectLen + sectBaLen)
    IN  IF ta = {} \/ tb = {} THEN RZero
        ELSE IF (ta \cap tb) # {} /\ ((ta \ tb) = {} \/ (tb \ ta) = {})
             THEN Rat(100, 1)
        ELSE IF sectLen = 0 THEN result
        ELSE RMax(result, RMax(sectAbRatio, sectBaRatio))

\* The windows of the longer string that partial_ratio aligns the shorter
\* string with: prefixes shorter than it, full-length windows, and suffixes.
PartialWindows(s1, s2) ==
    LET len1 == Len(s1)
        len2 == Len(s2)
        chars == SeqToSet(s1)
    IN  {SubSeq(s2, 1, i) : i \in {k \in 1..(len1 - 1) : s2[k] \in chars}}
        \cup {SubSeq(s2, i + 1, i + len1) :
                i \in {k \in 0..(len2 - len1 - 1) : s2[k + len1] \in chars}}
        \cup {SubSeq(s2, i + 1, len2) :
                i \in {k \in (len2 - len1)..(len2 - 1) : s2[k + 1] \in chars}}
PartialRatioImpl(s1, s2) ==
    LET scores == {FuzzRatio(s1, w) : w \in PartialWindows(s1, s2)}
    IN  IF s1 = << >> THEN RZero
        ELSE IF scores = {} THEN RZero
        ELSE CHOOSE x \in scores : \A y \in scores : RGe(x, y)
\* fuzz.partial_ratio
PartialRatio(s1, s2) ==
    IF s1 = << >> /\ s2 = << >> THEN Rat(100, 1)
    ELSE LET shorter == IF Len(s1) <= Len(s2) THEN s1 ELSE s2
             longer == IF Len(s1) <= Len(s2) THEN s2 ELSE s1
             res == PartialRatioImpl(shorter, longer)
         IN  IF Len(s1) = Len(s2) /\ res # Rat(100, 1)
             THEN RMax(res, PartialRatioImpl(longer, shorter))
             ELSE res

\* ------------------------------------------------------------------------
\* Input strings of the model (character codes of the quoted text)
\* ------------------------------------------------------------------------
\* "Elf Inn"
StrElfInn == <<69, 108, 102, 32, 73, 110, 110>>
\* "Inn Elf"
StrInnElf == <<73, 110, 110, 32, 69, 108, 102>>
\* "Elf Inn Sign"
StrElfInnSign == <<69, 108, 102, 32, 73, 110, 110, 32, 83, 105, 103, 110>>
\* "Toy Shop"
StrToyShop == <<84, 111, 121, 32, 83, 104, 111, 112>>
\* "56.12"
StrSku5612 == <<53, 54, 46, 49, 50>>
\* "56.123"
StrSku56123 == <<53, 54, 46, 49, 50, 51>>
\* "56.13"
StrSku5613 == <<53, 54, 46, 49, 51>>
\* "4025"
StrSku4025 == <<52, 48, 50, 53>>
\* "North Pole Series"
StrNorthPole == <<78, 111, 114, 116, 104, 32, 80, 111, 108, 101, 32, 83, 101, 114, 105, 101, 115>>
\* "Snow Village"
StrSnow == <<83, 110, 111, 119, 32, 86, 105, 108, 108, 97, 103, 101>>
\* "http://x/1.jpg"
StrUrl == <<104, 116, 116, 112, 58, 47, 47, 120, 47, 49, 46, 106, 112, 103>>
\* "4x5"
StrDims == <<52, 120, 53>>
\* "Robot factory building"
StrDescShort == <<82, 111, 98, 111, 116, 32, 102, 97, 99, 116, 111, 114, 121, 32, 98, 117, 105, 108, 100, 105, 110, 103>>
\* "Department 56 village collection series introduced retired; "
StrDescKeywords == <<68, 101, 112, 97, 114, 116, 109, 101, 110, 116, 32, 53, 54, 32, 118, 105, 108, 108, 97, 103, 101, 32, 99, 111, 108, 108, 101, 99, 116, 105, 111, 110, 32, 115, 101, 114, 105, 101, 115, 32, 105, 110, 116, 114, 111, 100, 117, 99, 101, 100, 32, 114, 101, 116, 105, 114, 101, 100, 59, 32>>
\* "Elf Pub"
StrElfPub == <<69, 108, 102, 32, 80, 117, 98>>
Empty == << >>
\* n filler characters "x"
Pad(n) == [i \in 1..n |-> 120]

\* ------------------------------------------------------------------------
\* enhanced_sitemap_scraper.py: ProductData
\* ------------------------------------------------------------------------
\* A missing year (None); the code only tests years for truthiness.
NoYear == 0
ProductData(name, item_number, intro_year, retire_year, description,
            dimensions, primary_image_url, additional_images,
            discovered_series, discovered_collection) ==
    [name |-> name, item_number |-> item_number, intro_year |-> intro_year,
     retire_year |-> retire_year, description |-> description,
     dimensions |-> dimensions, primary_image_url |-> primary_image_url,
     additional_images |-> additional_images,
     discovered_series |-> discovered_series,
     discovered_collection |-> discovered_collection,
     source_url |-> "", source_site |-> ""]
\* Truthiness of a str / of an Optional[int].
StrTruthy(s) == s # << >>
YearTruthy(y) == y # NoYear

\* ------------------------------------------------------------------------
\* enhanced_confidence.py: EnhancedConfidenceCalculator
\* ------------------------------------------------------------------------
ConfidenceFactors == 
    [name_match_score |-> RZero, sku_match_score |-> RZero,
     data_completeness |-> RZero, cross_source_validation |-> RZero,
     series_discovery_bonus |-> RZero, image_quality_bonus |-> RZero,
     year_consistency |-> RZero, description_quality |-> RZero,
     overall_confidence |-> RZero]

\* Variant: the name weight lowered to 0.30.
weights_NameLow ==
    [name_match |-> Rat(30, 100), sku_match |-> Rat(15, 100),
     data_completeness |-> Rat(20, 100),
     cross_source_validation |-> Rat(15, 100),
     series_discovery |-> Rat(5, 100), image_quality |-> Rat(5, 100),
     year_consistency |-> Rat(3, 100), description_quality |-> Rat(2, 100)]
weights ==
    [name_match |-> Rat(35, 100), sku_match |-> Rat(15, 100),
     data_completeness |-> Rat(20, 100),
     cross_source_validation |-> Rat(15, 100),
     series_discovery |-> Rat(5, 100), image_quality |-> Rat(5, 100),
     year_consistency |-> Rat(3, 100), description_quality |-> Rat(2, 100)]

dept56_founded == 1976

\* The products of results.values(), in the dict's order.
Products(results) == [i \in 1..Len(results) |-> results[i].product]
Count(seq, P(_)) == Cardinality({i \in 1..Len(seq) : P(seq[i])})

\* max(token_sort_ratio, token_set_ratio, partial_ratio) on lower-cased names
BestNameMatch(search_name, product) ==
    LET a == Lower(search_name)
        b == Lower(product.name)
    IN  RMax(TokenSortRatio(a, b), RMax(TokenSetRatio(a, b), PartialRatio(a, b)))

calculate_name_match(search_name, results) ==
    IF results = << >> THEN RZero
    ELSE LET scores == [i \in 1..Len(results) |->
                            BestNameMatch(search_name, results[i].product)]
             best_score == RMaxSeq(<<RZero>> \o scores)
             avg_score == RDivInt(RSumSeq(scores), Len(scores))
             final_score ==
                 RDivInt(RAdd(RMul(best_score, Rat(7, 10)),
                              RMul(avg_score, Rat(3, 10))), 100)
         IN  RMin(final_score, ROne)

\* Variant: a result in which no candidate carries a code counts as a full
\* code match.
calculate_sku_match_NoCodeFull(search_sku, results) ==
    IF ~StrTruthy(search_sku) \/ results = << >> THEN RZero
    ELSE LET ps == Products(results)
             sku == Lower(search_sku)
             Exact(p) == StrTruthy(p.item_number) /\ sku = Lower(p.item_number)
             Partial(p) ==
                 /\ StrTruthy(p.item_number)
                 /\ ~Exact(p)
                 /\ \/ Contains(sku, Lower(p.item_number))
                    \/ Contains(Lower(p.item_number), sku)
             HasSku(p) == StrTruthy(p.item_number)
             exact_matches == Count(ps, Exact)
             partial_matches == Count(ps, Partial)
             total_with_sku == Count(ps, HasSku)
         IN  IF total_with_sku = 0 THEN ROne
             ELSE RMin(Rat(2 * exact_matches + partial_matches,
                           2 * total_with_sku), ROne)
calculate_sku_match(search_sku, results) ==
    IF ~StrTruthy(search_sku) \/ results = << >> THEN RZero
    ELSE LET ps == Products(results)
             sku == Lower(search_sku)
             Exact(p) == StrTruthy(p.item_number) /\ sku = Lower(p.item_number)
             Partial(p) ==
                 /\ StrTruthy(p.item_number)
                 /\ ~Exact(p)
                 /\ \/ Contains(sku, Lower(p.item_number))
                    \/ Contains(Lower(p.item_number), sku)
             HasSku(p) == StrTruthy(p.item_number)
             exact_matches == Count(ps, Exact)
             partial_matches == Count(ps, Partial)
             total_with_sku == Count(ps, HasSku)
         IN  IF total_with_sku = 0 THEN RZero
             ELSE RMin(Rat(2 * exact_matches + partial_matches,
                           2 * total_with_sku), ROne)

Bit(b) == IF b THEN 1 ELSE 0
RequiredScore(p) ==
    Rat(Bit(StrTruthy(p.item_number)) + Bit(StrTruthy(p.description))
        + Bit(YearTruthy(p.intro_year)) + Bit(StrTruthy(p.primary_image_url)), 4)
OptionalBonus(p) ==
    RMul(Rat(Bit(YearTruthy(p.retire_year)) + Bit(StrTruthy(p.dimensions))
             + Bit(StrTruthy(p.discovered_series))
             + Bit(StrTruthy(p.discovered_collection)), 4), Rat(2, 10))
\* Variant: the completeness of one product without the cap at 1.0.
CompletenessOf_Uncapped(p) == RAdd(RequiredScore(p), OptionalBonus(p))
CompletenessOf(p) == RMin(RAdd(RequiredScore(p), OptionalBonus(p)), ROne)

calculate_data_completeness(results) ==
    IF results = << >> THEN RZero
    ELSE RMaxSeq([i \in 1..Len(results) |-> CompletenessOf(results[i].product)])

\* The pairs i < j of range(len(names)), in the order of the nested loops.
PairsOf(n) == {pr \in (1..n) \X (1..n) : pr[1] < pr[2]}
RECURSIVE RSumSet(_, _)
RSumSet(S, f) ==
    IF S = {} THEN RZero
    ELSE LET x == CHOOSE y \in S : TRUE IN RAdd(f[x], RSumSet(S \ {x}, f))

\* Variant: a single source counts as fully validated.
calculate_cross_source_validation_SingleFull(results) ==
    IF results = << >> THEN RZero
    ELSE IF Len(results) = 1 THEN ROne
    ELSE LET n == Len(results)
             source_count_score == RMin(Rat(n, 3), ROne)
             products == Products(results)
             pairs == PairsOf(n)
             sim == [pr \in pairs |->
                        RDivInt(TokenSortRatio(Lower(products[pr[1]].name),
                                               Lower(products[pr[2]].name)), 100)]
             avg_name_agreement == RDivInt(RSumSet(pairs, sim), Cardinality(pairs))
             skuIdx == {i \in 1..n : StrTruthy(products[i].item_number)}
             unique_skus == Cardinality({products[i].item_number : i \in skuIdx})
             sku_agreement == IF unique_skus = 1 THEN ROne ELSE Rat(1, 2)
             yearIdx == {i \in 1..n : YearTruthy(products[i].intro_year)}
             years == {products[i].intro_year : i \in yearIdx}
             year_range == SetMax(years) - CHOOSE y \in years : \A z \in years : y <= z
             year_agreement ==
                 IF year_range <= 1 THEN ROne
                 ELSE IF year_range >= 5 THEN Rat(1, 2)
                 ELSE Rat(10 - year_range, 10)
             agreement_factors ==
                 <<avg_name_agreement>>
                 \o (IF Cardinality(skuIdx) > 1 THEN <<sku_agreement>> ELSE << >>)
                 \o (IF Cardinality(yearIdx) > 1 THEN <<year_agreement>> ELSE << >>)
             avg_agreement ==
                 RDivInt(RSumSeq(agreement_factors), Len(agreement_factors))
             cross_source_score ==
                 IF agreement_factors # << >>
                 THEN RDivInt(RAdd(source_count_score, avg_agreement), 2)
                 ELSE RMul(source_count_score, Rat(1, 2))
         IN  RMin(cross_source_score, ROne)
calculate_cross_source_validation(results) ==
    IF Len(results) <= 1 THEN RZero
    ELSE LET n == Len(results)
             source_count_score == RMin(Rat(n, 3), ROne)
             products == Products(results)
             pairs == PairsOf(n)
             sim == [pr \in pairs |->
                        RDivInt(TokenSortRatio(Lower(products[pr[1]].name),
                                               Lower(products[pr[2]].name)), 100)]
             avg_name_agreement == RDivInt(RSumSet(pairs, sim), Cardinality(pairs))
             skuIdx == {i \in 1..n : StrTruthy(products[i].item_number)}
             unique_skus == Cardinality({products[i].item_number : i \in skuIdx})
             sku_agreement == IF unique_skus = 1 THEN ROne ELSE Rat(1, 2)
             yearIdx == {i \in 1..n : YearTruthy(products[i].intro_year)}
             years == {products[i].intro_year : i \in yearIdx}
             year_range == SetMax(years) - CHOOSE y \in years : \A z \in years : y <= z
             year_agreement ==
                 IF year_range <= 1 THEN ROne
                 ELSE IF year_range >= 5 THEN Rat(1, 2)
                 ELSE Rat(10 - year_range, 10)
             agreement_factors ==
                 <<avg_name_agreement>>
                 \o (IF Cardinality(skuIdx) > 1 THEN <<sku_agreement>> ELSE << >>)
                 \o (IF Cardinality(yearIdx) > 1 THEN <<year_agreement>> ELSE << >>)
             avg_agreement ==
                 RDivInt(RSumSeq(agreement_factors), Len(agreement_factors))
             cross_source_score ==
                 IF agreement_factors # << >>
                 THEN RDivInt(RAdd(source_count_score, avg_agreement), 2)
                 ELSE RMul(source_count_score, Rat(1, 2))
         IN  RMin(cross_source_score, ROne)

calculate_series_bonus(results) ==
    IF results = << >> THEN RZero
    ELSE LET ps == Products(results)
             HasSeries(p) == StrTruthy(p.discovered_series)
             HasCollection(p) == StrTruthy(p.discovered_collection)
             total_sources == Len(results)
             series_score == Rat(Count(ps, HasSeries), total_sources)
             collection_score == Rat(Count(ps, HasCollection), total_sources)
         IN  IF RGt(series_score, RZero) /\ RGt(collection_score, RZero)
             THEN RMin(RAdd(series_score, RMul(collection_score, Rat(3, 10))), ROne)
             ELSE RMax(series_score, collection_score)

\* Scores of one product, in tenths.
ImageTenths(p) ==
    Min2((IF StrTruthy(p.primary_image_url) THEN 7 ELSE 0)
         + (IF Len(p.additional_images) > 0
            THEN Min2(Len(p.additional_images), 3) ELSE 0), 10)

calculate_image_bonus(results) ==
    IF results = << >> THEN RZero
    ELSE Rat(SetMax({ImageTenths(results[i].product) : i \in 1..Len(results)}), 10)

YearTenths(p, current_year) ==
    LET intro ==
            IF YearTruthy(p.intro_year)
            THEN IF dept56_founded <= p.intro_year /\ p.intro_year <= current_year
                 THEN 5 ELSE -2
            ELSE 0
        retire ==
            IF YearTruthy(p.retire_year)
            THEN IF /\ YearTruthy(p.intro_year)
                    /\ p.retire_year >= p.intro_year
                    /\ p.retire_year <= current_year
                 THEN 3
                 ELSE IF /\ ~YearTruthy(p.intro_year)
                         /\ dept56_founded <= p.retire_year
                         /\ p.retire_year <= current_year
                      THEN 2 ELSE 0
            ELSE 0
        both == IF YearTruthy(p.intro_year) /\ YearTruthy(p.retire_year)
                THEN 2 ELSE 0
    IN  Max2(intro + retire + both, 0)

calculate_year_consistency(results, current_year) ==
    IF results = << >> THEN RZero
    ELSE Rat(SetMax({YearTenths(results[i].product, current_year) :
                        i \in 1..Len(results)}), 10)

\* 'department 56', 'village', 'collection', 'series', 'introduced',
\* 'retired', 'dimensions', 'detail'
quality_indicators ==
    {<<100, 101, 112, 97, 114, 116, 109, 101, 110, 116, 32, 53, 54>>,
     <<118, 105, 108, 108, 97, 103, 101>>,
     <<99, 111, 108, 108, 101, 99, 116, 105, 111, 110>>,
     <<115, 101, 114, 105, 101, 115>>,
     <<105, 110, 116, 114, 111, 100, 117, 99, 101, 100>>,
     <<114, 101, 116, 105, 114, 101, 100>>,
     <<100, 105, 109, 101, 110, 115, 105, 111, 110, 115>>,
     <<100, 101, 116, 97, 105, 108>>}

DescriptionTenths(p) ==
    IF StrTruthy(p.description)
    THEN LET desc_len == Len(p.description)
             length_score == IF desc_len > 200 THEN 5
                             ELSE IF desc_len > 100 THEN 3
                             ELSE IF desc_len > 50 THEN 1 ELSE 0
             desc_lower == Lower(p.description)
             indicator_bonus ==
                 Cardinality({k \in quality_indicators : Contains(k, desc_lower)})
         IN  Min2(length_score + Min2(indicator_bonus, 5), 10)
    ELSE 0

calculate_description_quality(results) ==
    IF results = << >> THEN RZero
    ELSE Rat(SetMax({DescriptionTenths(results[i].product) :
                        i \in 1..Len(results)}), 10)

WeightedSum(f) ==
    RSumSeq(<<RMul(f.name_match_score, weights.name_match),
              RMul(f.sku_match_score, weights.sku_match),
              RMul(f.data_completeness, weights.data_completeness),
              RMul(f.cross_source_validation, weights.cross_source_validation),
              RMul(f.series_discovery_bonus, weights.series_discovery),
              RMul(f.image_quality_bonus, weights.image_quality),
              RMul(f.year_consistency, weights.year_consistency),
              RMul(f.description_quality, weights.description_quality)>>)

calculate_detailed_confidence(search_name, search_sku, results, current_year) ==
    IF results = << >> THEN ConfidenceFactors
    ELSE LET f == [ConfidenceFactors EXCEPT
                     !.name_match_score = calculate_name_match(search_name, results),
                     !.sku_match_score = calculate_sku_match(search_sku, results),
                     !.data_completeness = calculate_data_completeness(results),
                     !.cross_source_validation =
                         calculate_cross_source_validation(results),
                     !.series_discovery_bonus = calculate_series_bonus(results),
                     !.image_quality_bonus = calculate_image_bonus(results),
                     !.year_consistency =
                         calculate_year_consistency(results, current_year),
                     !.description_quality =
                         calculate_description_quality(results)]
         IN  [f EXCEPT !.overall_confidence = RMin(WeightedSum(f), ROne)]

\* Variant: the FAIR threshold raised to 0.75.
get_confidence_category_FairHigh(confidence) ==
    IF RGe(confidence, Rat(90, 100)) THEN "EXCELLENT"
    ELSE IF RGe(confidence, Rat(80, 100)) THEN "GOOD"
    ELSE IF RGe(confidence, Rat(75, 100)) THEN "FAIR"
    ELSE IF RGe(confidence, Rat(50, 100)) THEN "POOR"
    ELSE "VERY_POOR"
get_confidence_category(confidence) ==
    IF RGe(confidence, Rat(90, 100)) THEN "EXCELLENT"
    ELSE IF RGe(confidence, Rat(80, 100)) THEN "GOOD"
    ELSE IF RGe(confidence, Rat(70, 100)) THEN "FAIR"
    ELSE IF RGe(confidence, Rat(50, 100)) THEN "POOR"
    ELSE "VERY_POOR"

\* Variant: the approval threshold compared with > instead of >=.
get_recommendation_Strict(f) ==
    LET confidence == f.overall_confidence
    IN  IF RGe(confidence, Rat(90, 100))
        THEN IF RGt(f.cross_source_validation, Rat(5, 10))
             THEN "AUTO_APPROVE" ELSE "RECOMMEND_APPROVE"
        ELSE IF RGt(confidence, Rat(80, 100)) THEN "RECOMMEND_APPROVE"
        ELSE IF RGe(confidence, Rat(70, 100)) THEN "MANUAL_REVIEW"
        ELSE IF RGe(confidence, Rat(50, 100)) THEN "NEEDS_VERIFICATION"
        ELSE "REJECT"
get_recommendation(f) ==
    LET confidence == f.overall_confidence
    IN  IF RGe(confidence, Rat(90, 100))
        THEN IF RGt(f.cross_source_validation, Rat(5, 10))
             THEN "AUTO_APPROVE" ELSE "RECOMMEND_APPROVE"
        ELSE IF RGe(confidence, Rat(80, 100)) THEN "RECOMMEND_APPROVE"
        ELSE IF RGe(confidence, Rat(70, 100)) THEN "MANUAL_REVIEW"
        ELSE IF RGe(confidence, Rat(50, 100)) THEN "NEEDS_VERIFICATION"
        ELSE "REJECT"

\* enhanced_sitemap_scraper.py: the configured sites, in the order of SITES.
SITES == <<"dept56_official", "dept56_retired", "replacements">>
SiteNames == {SITES[i] : i \in 1..Len(SITES)}
\* A file that does not exist / a file holding a product map (url, product
\* pairs in the file's order).
NoFile == [exists |-> FALSE, products |-> << >>]
FileOf(products) == [exists |-> TRUE, products |-> products]

\* The years the clock can show during a run.
ClockYears == {2026}

\* ------------------------------------------------------------------------
\* Regular expressions of house_accessory_linker.py
\* ------------------------------------------------------------------------
StartsAt(text, i, lit) ==
    i >= 1 /\ i + Len(lit) - 1 <= Len(text)
    /\ SubSeq(text, i, i + Len(lit) - 1) = lit
\* [:\s]
IsSepChar(c) == c = 58 \/ IsSpace(c)
\* [^.\n]
IsPlainChar(c) == c # 46 /\ c # 10
\* \w (ASCII)
IsWordChar(c) ==
    (c >= 48 /\ c <= 57) \/ (c >= 65 /\ c <= 90) \/ (c >= 97 /\ c <= 122) \/ c = 95

\* The last index of the run of characters satisfying P that starts at i
\* (i - 1 when text[i] does not satisfy P).
SetMin(S) == CHOOSE x \in S : \A y \in S : x <= y
RunEnd(text, i, P(_)) ==
    LET stops == {j \in i..Len(text) : ~P(text[j])}
    IN  IF stops = {} THEN Max2(Len(text), i - 1) ELSE SetMin(stops) - 1

\* str.strip()
RECURSIVE LStrip(_)
LStrip(t) == IF t # << >> /\ IsSpace(t[1]) THEN LStrip(Tail(t)) ELSE t
RECURSIVE RStrip(_)
RStrip(t) ==
    IF t # << >> /\ IsSpace(t[Len(t)]) THEN RStrip(SubSeq(t, 1, Len(t) - 1)) ELSE t
Strip(t) == RStrip(LStrip(t))

NoGroup == [found |-> FALSE, group |-> << >>]
\* The match of  kw[:\s]+([^.\n]+)  that starts at i, if there is one.
KeywordCaptureAt(text, i, kw) ==
    IF ~StartsAt(text, i, kw) THEN NoGroup
    ELSE LET p == i + Len(kw)
             sepEnd == RunEnd(text, p, IsSepChar)
             \* first characters the group can start with, after 1.. separators
             starts == {q \in (p + 1)..(sepEnd + 1) :
                           q <= Len(text) /\ IsPlainChar(text[q])}
         IN  IF starts = {} THEN NoGroup
             ELSE LET q == SetMax(starts)
                  IN  [found |-> TRUE,
                       group |-> SubSeq(text, q, RunEnd(text, q, IsPlainChar))]
\* The match of  lead([^.\n]+ (?:w1|w2|...))  that starts at i.
PhraseCaptureAt(text, i, lead, words) ==
    IF ~StartsAt(text, i, lead) THEN NoGroup
    ELSE LET q == i + Len(lead)
             e == RunEnd(text, q, IsPlainChar)
             ends == {x \in q..(e - 1) :
                         /\ text[x + 1] = 32
                         /\ \E k \in 1..Len(words) : StartsAt(text, x + 2, words[k])}
         IN  IF ends = {} THEN NoGroup
             ELSE LET x == SetMax(ends)
                      k == CHOOSE j \in 1..Len(words) :
                               /\ StartsAt(text, x + 2, words[j])
                               /\ \A h \in 1..(j - 1) : ~StartsAt(text, x + 2, words[h])
                  IN  [found |-> TRUE,
                       group |-> SubSeq(text, q, x + 1 + Len(words[k]))]

\* re.search: the match at the leftmost position.
Search(text, MatchAt(_, _)) ==
    LET hits == {i \in 1..Len(text) : MatchAt(text, i).found}
    IN  IF hits = {} THEN NoGroup ELSE MatchAt(text, SetMin(hits))

\* The match of  phrase(.+?)(?:\.|$)  that starts at i: the shortest group
\* followed by a period or by the end of the text.  len is the length of
\* the whole match.
LazyCaptureAt(text, i, phrase) ==
    IF ~StartsAt(text, i, phrase) THEN [found |-> FALSE, group |-> << >>, len |-> 0]
    ELSE LET q == i + Len(phrase)
             n == Len(text)
             e == RunEnd(text, q, LAMBDA c : c # 10)
             AtEnd(x) == x = n \/ (x = n - 1 /\ text[n] = 10)
             ends == {x \in q..e : AtEnd(x) \/ (x < n /\ text[x + 1] = 46)}
         IN  IF ends = {} THEN [found |-> FALSE, group |-> << >>, len |-> 0]
             ELSE LET x == SetMin(ends)
                  IN  [found |-> TRUE, group |-> SubSeq(text, q, x),
                       len |-> (IF x < n /\ text[x + 1] = 46 THEN x + 1 ELSE x)
                               - i + 1]
\* re.findall: the groups of the non-overlapping matches, left to right.
RECURSIVE FindAllFrom(_, _, _)
FindAllFrom(text, i, phrase) ==
    IF i > Len(text) THEN << >>
    ELSE LET m == LazyCaptureAt(text, i, phrase)
         IN  IF m.found THEN <<m.group>> \o FindAllFrom(text, i + m.len, phrase)
             ELSE FindAllFrom(text, i + 1, phrase)
FindAll(phrase, text) == FindAllFrom(text, 1, phrase)

\* re.findall(r'\w+', text)
RECURSIVE WordsFrom(_, _, _, _)
WordsFrom(s, i, cur, acc) ==
    IF i > Len(s)
    THEN IF cur = << >> THEN acc ELSE Append(acc, cur)
    ELSE IF ~IsWordChar(s[i])
         THEN WordsFrom(s, i + 1, << >>,
                        IF cur = << >> THEN acc ELSE Append(acc, cur))
         ELSE WordsFrom(s, i + 1, Append(cur, s[i]), acc)
Words(s) == WordsFrom(s, 1, << >>, << >>)

\* ------------------------------------------------------------------------
\* house_accessory_linker.py: data, note parsing and the six signals
\* ------------------------------------------------------------------------
HouseData(id, name, year, sku, notes, series, collection) ==
    [id |-> id, name |-> name, year |-> year, sku |-> sku, notes |-> notes,
     series |-> series, collection |-> collection]
AccessoryData(name, item_number, intro_year, description,
              discovered_series, discovered_collection) ==
    [name |-> name, item_number |-> item_number, intro_year |-> intro_year,
     description |-> description, discovered_series |-> discovered_series,
     discovered_collection |-> discovered_collection, source_site |-> << >>]
LinkingMatch(house, accessory, match_score, match_reasons, confidence_level) ==
    [house |-> house, accessory |-> accessory, match_score |-> match_score,
     match_reasons |-> match_reasons, confidence_level |-> confidence_level]

\* linking_patterns: the literal text each phrase pattern starts with; every
\* one continues with (.+?)(?:\.|$).
compatibility_phrases ==
    <<<<103, 111, 101, 115, 32, 119, 105, 116, 104, 32>>,
      <<99, 111, 111, 114, 100, 105, 110, 97, 116, 101, 115, 32, 119, 105, 116, 104, 32>>,
      <<112, 97, 105, 114, 115, 32, 119, 105, 116, 104, 32>>,
      <<99, 111, 109, 112, 108, 101, 109, 101, 110, 116, 115, 32>>,
      <<100, 101, 115, 105, 103, 110, 101, 100, 32, 102, 111, 114, 32>>,
      <<112, 101, 114, 102, 101, 99, 116, 32, 102, 111, 114, 32>>,
      <<109, 97, 116, 99, 104, 101, 115, 32>>,
      <<99, 111, 109, 112, 97, 116, 105, 98, 108, 101, 32, 119, 105, 116, 104, 32>>>>
inclusion_phrases ==
    <<<<105, 110, 99, 108, 117, 100, 101, 115, 32>>,
      <<99, 111, 109, 101, 115, 32, 119, 105, 116, 104, 32>>,
      <<102, 101, 97, 116, 117, 114, 101, 115, 32>>,
      <<99, 111, 110, 116, 97, 105, 110, 115, 32>>>>
\* "series", "village", "collection", "from the ", "part of "
KwSeries == <<115, 101, 114, 105, 101, 115>>
KwVillage == <<118, 105, 108, 108, 97, 103, 101>>
KwCollection == <<99, 111, 108, 108, 101, 99, 116, 105, 111, 110>>
LeadFromThe == <<102, 114, 111, 109, 32, 116, 104, 101, 32>>
LeadPartOf == <<112, 97, 114, 116, 32, 111, 102, 32>>
stop_words ==
    {<<116, 104, 101>>,
     <<97>>,
     <<97, 110>>,
     <<97, 110, 100>>,
     <<111, 114>>,
     <<98, 117, 116>>,
     <<111, 102>>,
     <<102, 111, 114>>,
     <<119, 105, 116, 104>>,
     <<98, 121>>}

\* The first pattern of the list that matches decides the label.
extract_series_collection_from_notes(notes) ==
    LET notes_lower == Lower(notes)
        s1 == Search(notes_lower, LAMBDA t, i : KeywordCaptureAt(t, i, KwSeries))
        s2 == Search(notes_lower, LAMBDA t, i : KeywordCaptureAt(t, i, KwVillage))
        s3 == Search(notes_lower,
                     LAMBDA t, i : PhraseCaptureAt(t, i, LeadFromThe,
                                       <<KwSeries, KwVillage, KwCollection>>))
        c1 == Search(notes_lower,
                     LAMBDA t, i : KeywordCaptureAt(t, i, KwCollection))
        c2 == Search(notes_lower,
                     LAMBDA t, i : PhraseCaptureAt(t, i, LeadPartOf, <<KwCollection>>))
    IN  [series |-> IF s1.found THEN Strip(s1.group)
                    ELSE IF s2.found THEN Strip(s2.group)
                    ELSE IF s3.found THEN Strip(s3.group)
                    ELSE << >>,
         collection |-> IF c1.found THEN Strip(c1.group)
                        ELSE IF c2.found THEN Strip(c2.group)
                        ELSE << >>]

\* The label comparison shared by the series and collection signals.
\* Variant: the similarity counts whatever its value.
LabelMatch_NoFloor(a, b) ==
    IF a = << >> \/ b = << >> THEN RZero
    ELSE IF Lower(a) = Lower(b) THEN ROne
    ELSE RDivInt(TokenSortRatio(Lower(a), Lower(b)), 100)
LabelMatch(a, b) ==
    IF a = << >> \/ b = << >> THEN RZero
    ELSE IF Lower(a) = Lower(b) THEN ROne
    ELSE LET similarity == RDivInt(TokenSortRatio(Lower(a), Lower(b)), 100)
         IN  IF RGe(similarity, Rat(7, 10)) THEN similarity ELSE RZero
score_series_match(house, accessory) ==
    LabelMatch(house.series, accessory.discovered_series)
score_collection_match(house, accessory) ==
    LabelMatch(house.collection, accessory.discovered_collection)

score_name_patterns(house, accessory) ==
    LET house_name_lower == Lower(house.name)
        accessory_name_lower == Lower(accessory.name)
        contain == IF Contains(house_name_lower, accessory_name_lower)
                   THEN Rat(9, 10)
                   ELSE IF Contains(accessory_name_lower, house_name_lower)
                   THEN Rat(8, 10)
                   ELSE RZero
        house_words == SeqToSet(Words(house_name_lower)) \ stop_words
        accessory_words == SeqToSet(Words(accessory_name_lower)) \ stop_words
        common_words == house_words \cap accessory_words
        overlap == IF house_words # {} /\ accessory_words # {} /\ common_words # {}
                   THEN RMul(Rat(Cardinality(common_words),
                                 Min2(Cardinality(house_words),
                                      Cardinality(accessory_words))),
                             Rat(6, 10))
                   ELSE RZero
        pattern == IF \E w \in house_words :
                          Len(w) > 3 /\ Contains(w, accessory_name_lower)
                   THEN Rat(7, 10) ELSE RZero
    IN  RMax(RMax(contain, overlap), pattern)

\* The groups re.findall returns for a list of phrase patterns.
PhraseMatches(phrases, text) ==
    UNION {SeqToSet(FindAll(phrases[k], text)) : k \in 1..Len(phrases)}
score_description_mining(house, accessory) ==
    LET accessory_text == Lower(accessory.description)
        house_text == Lower(house.name \o <<32>> \o house.notes)
        CompatScore(m) ==
            IF RGt(PartialRatio(Lower(m), Lower(house.name)), Rat(70, 1))
            THEN Rat(9, 10)
            ELSE IF \E word \in SeqToSet(Split(Lower(m))) : Contains(word, house_text)
            THEN Rat(6, 10)
            ELSE RZero
        InclScore(m) ==
            IF RGt(PartialRatio(Lower(m), Lower(accessory.name)), Rat(70, 1))
            THEN Rat(8, 10)
            ELSE RZero
        scores == {CompatScore(m) : m \in PhraseMatches(compatibility_phrases,
                                                        accessory_text)}
                  \cup {InclScore(m) : m \in PhraseMatches(inclusion_phrases,
                                                           house_text)}
                  \cup {RZero}
    IN  CHOOSE x \in scores : \A y \in scores : RGe(x, y)

score_year_proximity(house, accessory) ==
    IF house.year = NoYear \/ accessory.intro_year = NoYear THEN RZero
    ELSE LET year_diff == Abs(house.year - accessory.intro_year)
         IN  IF year_diff = 0 THEN ROne
             ELSE IF year_diff = 1 THEN Rat(8, 10)
             ELSE IF year_diff <= 3 THEN Rat(5, 10)
             ELSE IF year_diff <= 5 THEN Rat(2, 10)
             ELSE RZero

\* .lower().replace('-', '').replace('.', '')
CleanSku(sku) == SelectSeq(Lower(sku), LAMBDA c : c # 45 /\ c # 46)
\* s[:n]
Prefix(s, n) == SubSeq(s, 1, Min2(n, Len(s)))
score_sku_patterns(house, accessory) ==
    IF house.sku = << >> \/ accessory.item_number = << >> THEN RZero
    ELSE LET house_sku == CleanSku(house.sku)
             acc_sku == CleanSku(accessory.item_number)
             similarity == RDivInt(FuzzRatio(house_sku, acc_sku), 100)
         IN  IF Len(house_sku) >= 6 /\ Len(acc_sku) >= 6
                /\ Prefix(house_sku, 6) = Prefix(acc_sku, 6)
             THEN Rat(8, 10)
             ELSE IF Len(house_sku) >= 6 /\ Len(acc_sku) >= 6
                     /\ Prefix(house_sku, 4) = Prefix(acc_sku, 4)
             THEN Rat(5, 10)
             ELSE IF RGe(similarity, Rat(7, 10)) THEN similarity ELSE RZero

\* A reason string: its fixed text and the label text formatted into it.
Reason(text, detail) == [text |-> text, detail |-> detail]
\* " ≈ "
StrApprox == <<32, 8776, 32>>
\* Variant: no reason for a series that is only similar.
SeriesReasons_SameOnly(series_score, house, accessory) ==
    IF RGe(series_score, Rat(8, 10))
    THEN <<Reason("Same series: ", accessory.discovered_series)>>
    ELSE << >>
\* The reason the series signal appends.
SeriesReasons(series_score, house, accessory) ==
    IF RGe(series_score, Rat(8, 10))
    THEN <<Reason("Same series: ", accessory.discovered_series)>>
    ELSE IF RGe(series_score, Rat(5, 10))
    THEN <<Reason("Similar series: ",
                  house.series \o StrApprox \o accessory.discovered_series)>>
    ELSE << >>

\* The six sub-scores, in the order the code evaluates them.
SignalScores(house, accessory) ==
    <<score_series_match(house, accessory),
      score_collection_match(house, accessory),
      score_name_patterns(house, accessory),
      score_description_mining(house, accessory),
      score_year_proximity(house, accessory),
      score_sku_patterns(house, accessory)>>
\* The weight of each signal in the combined score.
SignalWeights ==
    <<Rat(40, 100), Rat(30, 100), Rat(15, 100), Rat(10, 100), Rat(3, 100),
      Rat(2, 100)>>

\* A reason that is appended only when its signal scored.
ReasonIf(sub_score, reasons) == IF RGt(sub_score, RZero) THEN reasons ELSE << >>
NameReasons(name_score) ==
    IF RGe(name_score, Rat(8, 10))
    THEN <<Reason("Name contains house reference", << >>)>>
    ELSE <<Reason("Name similarity detected", << >>)>>
\* Variant: a collection match replaces the series term instead of adding
\* to it.
CompatibilityScore_CollectionReplacesSeries(sub) ==
    RMin(RSumSeq([k \in 1..6 |->
                     IF k = 1 /\ sub[2] # RZero THEN RZero
                     ELSE RMul(sub[k], SignalWeights[k])]), ROne)
\* The weighted sum of the sub-scores, capped at 1.0.
CompatibilityScore(sub) ==
    RMin(RSumSeq([k \in 1..6 |-> RMul(sub[k], SignalWeights[k])]), ROne)
\* The reasons, in the order in which the signals are evaluated.
CompatibilityReasons(sub, house, accessory) ==
    ReasonIf(sub[1], SeriesReasons(sub[1], house, accessory))
    \o ReasonIf(sub[2],
                <<Reason("Same collection: ", accessory.discovered_collection)>>)
    \o ReasonIf(sub[3], NameReasons(sub[3]))
    \o ReasonIf(sub[4], <<Reason("Description indicates compatibility", << >>)>>)
    \o ReasonIf(sub[5], <<Reason("Introduced in similar years", << >>)>>)
    \o ReasonIf(sub[6], <<Reason("Similar item numbers", << >>)>>)
calculate_compatibility_score(house, accessory) ==
    LET sub == SignalScores(house, accessory)
    IN  [score |-> CompatibilityScore(sub),
         reasons |-> CompatibilityReasons(sub, house, accessory)]

determine_confidence_level(score) ==
    IF RGe(score, Rat(85, 100)) THEN "VERY_HIGH"
    ELSE IF RGe(score, Rat(70, 100)) THEN "HIGH"
    ELSE IF RGe(score, Rat(55, 100)) THEN "MEDIUM"
    ELSE IF RGe(score, Rat(40, 100)) THEN "LOW"
    ELSE "VERY_LOW"

\* Variant: every positive score is kept.
KeepMatch_Any(match_score) == RGt(match_score, RZero)
\* `if match_score > 0.3`
KeepMatch(match_score) == RGt(match_score, Rat(3, 10))

\* matches.sort(key=match_score, reverse=True): a stable sort, so matches
\* with equal scores keep the order in which they were appended.
RECURSIVE InsertMatch(_, _)
InsertMatch(m, sorted) ==
    IF sorted = << >> THEN <<m>>
    ELSE IF RGt(m.match_score, sorted[1].match_score) THEN <<m>> \o sorted
    ELSE <<sorted[1]>> \o InsertMatch(m, Tail(sorted))
RECURSIVE SortMatchesFrom(_, _, _)
SortMatchesFrom(ms, i, sorted) ==
    IF i > Len(ms) THEN sorted
    ELSE SortMatchesFrom(ms, i + 1, InsertMatch(ms[i], sorted))
\* Variant: the sorted list reversed.
SortMatches_Reversed(ms) ==
    LET sorted == SortMatchesFrom(ms, 1, << >>)
    IN  [k \in 1..Len(sorted) |-> sorted[Len(sorted) + 1 - k]]
SortMatches(ms) == SortMatchesFrom(ms, 1, << >>)

\* The body of the scoring loop: the house is appended when its score
\* passes the threshold.
AppendIfKept(matches, house, accessory, r) ==
    IF KeepMatch(r.score)
    THEN Append(matches, LinkingMatch(house, accessory, r.score, r.reasons,
                                      determine_confidence_level(r.score)))
    ELSE matches
\* The scoring loop and the sort of find_compatible_houses over a cache.
RECURSIVE ScanHouses(_, _, _, _)
ScanHouses(cache, accessory, i, matches) ==
    IF i > Len(cache) THEN matches
    ELSE ScanHouses(cache, accessory, i + 1,
                    AppendIfKept(matches, cache[i], accessory,
                                 calculate_compatibility_score(cache[i], accessory)))
RankHouses(cache, accessory) == SortMatches(ScanHouses(cache, accessory, 1, << >>))

\* load_houses_cache: the rows of the houses table as HouseData, or nothing
\* when the query raises.
HouseOfRow(row) ==
    LET x == extract_series_collection_from_notes(row.notes)
    IN  HouseData(row.id, row.name, row.year, row.sku, row.notes,
                  x.series, x.collection)
load_houses_cache(table, query_ok) ==
    IF query_ok THEN [k \in 1..Len(table) |-> HouseOfRow(table[k])] ELSE << >>

\* ------------------------------------------------------------------------
\* State
\* ------------------------------------------------------------------------
VARIABLES
    current_year,           \* datetime.now().year
    search_name,            \* the name being resolved
    search_sku,             \* its item number, empty when it has none
    multi_source_results,   \* site -> {product, score}, in insertion order
    factors,                \* the ConfidenceFactors last returned
    stage,                  \* "input": no score yet; "scored": factors is
                            \* the result for the current inputs
    probe,                  \* two ConfidenceFactors objects handed to the
                            \* category and recommendation functions
    probe_category,         \* get_confidence_category of each ("" = not called)
    probe_recommendation,   \* get_recommendation of each ("" = not called)
    product_index_json,     \* the file product_index.json beside the script
    cache_files,            \* the per-site cache files <site>_index.json
    web_pages,              \* the product pages the retired-products site serves
    indices,                \* SitemapBasedScraper.indices, in insertion order
    houses_table,           \* the rows of the store's "houses" table
    houses_cache,           \* HouseAccessoryLinker.houses_cache
    accessory,              \* the accessory of the last find_compatible_houses
                            \* call on the present cache (NoAccessory: none)
    matches,                \* the list that call returned
    cache_loaded,           \* load_houses_cache has run to its end
    batch_results,          \* what the last batch_link_accessories returned
    signal_probe,           \* two vectors of the six sub-scores
    signal_scores,          \* the match score of each (<< >> = not computed)
    norm_input,             \* a string handed to _normalize_text
    norm_output,            \* the results of normalising it once, twice, ...
    min_match_score,        \* Dept56Scraper.min_match_score
    search_data,            \* FuzzyMatcher.search_data, in index order
    match_query,            \* the house of the last FuzzyMatcher.match call
    match_result,           \* what that call returned
    sites_enabled,          \* MultiSourceScraper.sites[s]['enabled']
    ms_result               \* the MultiSourceResult of the last search_all_sources

calcVars == <<current_year, search_name, search_sku, multi_source_results,
              factors, stage>>
policyVars == <<probe, probe_category, probe_recommendation>>
scraperVars == <<product_index_json, cache_files, web_pages, indices>>
linkVars == <<houses_table, houses_cache, accessory, matches, cache_loaded,
              batch_results>>
signalVars == <<signal_probe, signal_scores>>
matcherVars == <<norm_input, norm_output, min_match_score, search_data,
                 match_query, match_result>>
vars == <<current_year, search_name, search_sku, multi_source_results,
          factors, stage, probe, probe_category, probe_recommendation,
          product_index_json, cache_files, web_pages, indices,
          houses_table, houses_cache, accessory, matches, cache_loaded,
          batch_results, signal_probe, signal_scores, norm_input, norm_output,
          min_match_score, search_data, match_query, match_result,
          sites_enabled, ms_result>>
aggVars == <<sites_enabled, ms_result>>

\* The parts of the state a component does not use stay as constructed.
CalcIdle ==
    /\ current_year \in ClockYears
    /\ search_name = Empty
    /\ search_sku = Empty
    /\ multi_source_results = << >>
    /\ factors = ConfidenceFactors
    /\ stage = "input"
PolicyIdle ==
    /\ probe = <<ConfidenceFactors, ConfidenceFactors>>
    /\ probe_category = <<"", "">>
    /\ probe_recommendation = <<"", "">>
ScraperIdle ==
    /\ product_index_json = NoFile
    /\ cache_files = [s \in SiteNames |-> NoFile]
    /\ web_pages = << >>
    /\ indices = << >>
NoAccessory == AccessoryData(<< >>, << >>, NoYear, << >>, << >>, << >>)
LinkIdle ==
    /\ houses_table = << >>
    /\ houses_cache = << >>
    /\ accessory = NoAccessory
    /\ matches = << >>
    /\ cache_loaded = FALSE
    /\ batch_results = << >>
NoSignals == [k \in 1..6 |-> RZero]
SignalIdle ==
    /\ signal_probe = <<NoSignals, NoSignals>>
    /\ signal_scores = << >>
NoQuery == [name |-> << >>, sku |-> << >>]
NoResult == [matched |-> FALSE, url |-> "", confidence |-> RZero]
MatcherIdle ==
    /\ norm_input = << >>
    /\ norm_output = << >>
    /\ min_match_score = 60
    /\ search_data = << >>
    /\ match_query = NoQuery
    /\ match_result = NoResult
\* multi_source_scraper.py: the sites in the order of self.sites.
ScraperSites == <<"dept56_retired", "dept56_official", "replacements">>
NoMultiSourceResult ==
    [all_sources |-> << >>, best_match |-> << >>, overall_confidence |-> RZero,
     name_match_score |-> RZero, details_confidence |-> RZero,
     cross_source_validation |-> RZero]
AggIdle ==
    /\ sites_enabled = [k \in 1..Len(ScraperSites) |-> TRUE]
    /\ ms_result = NoMultiSourceResult

\* ------------------------------------------------------------------------
\* Bounds and input sets
\* ------------------------------------------------------------------------
\* Largest number of sources in a hand-built aggregated result.
MaxSources == 4
SourceKeys == <<"dept56_official", "dept56_retired", "replacements",
                "source_4", "source_5", "source_6">>

\* Every field present, with the optional fields and four extra images.
ProductFull ==
    ProductData(StrElfInn, StrSku5612, 2006, 2008, StrDescKeywords \o Pad(150),
                StrDims, StrUrl, <<StrUrl, StrUrl, StrUrl, StrUrl>>,
                StrNorthPole, StrSnow)
\* Same name, code and year, no series or collection.
ProductPlain ==
    ProductData(StrElfInn, StrSku5612, 2006, NoYear, StrDescShort,
                Empty, StrUrl, << >>, Empty, Empty)
\* A name only.
ProductBare ==
    ProductData(StrToyShop, Empty, NoYear, NoYear, Empty,
                Empty, Empty, << >>, Empty, Empty)
\* A longer name, a longer code, impossible years, one extra image.
ProductOdd ==
    ProductData(StrElfInnSign, StrSku56123, 1970, 1969, Pad(101),
                Empty, Empty, <<StrUrl>>, Empty, StrSnow)
\* The words of the name swapped, a retirement year only, a later series.
ProductLate ==
    ProductData(StrInnElf, StrSku5613, NoYear, 2010, Empty,
                Empty, Empty, << >>, StrNorthPole, Empty)

SourceEntries ==
    {[product |-> ProductFull, score |-> Rat(100, 1)],
     [product |-> ProductPlain, score |-> Rat(100, 1)],
     [product |-> ProductBare, score |-> Rat(60, 1)],
     [product |-> ProductOdd, score |-> Rat(1400, 19)],
     [product |-> ProductLate, score |-> Rat(100, 1)]}
QueryNames == {StrElfInn, StrToyShop}
QuerySkus == {Empty, StrSku5612}

\* ------------------------------------------------------------------------
\* The confidence calculator applied to hand-built aggregated results
\* ------------------------------------------------------------------------
InitConf ==
    /\ current_year \in ClockYears
    /\ search_name \in QueryNames
    /\ search_sku \in QuerySkus
    /\ multi_source_results = << >>
    /\ factors = ConfidenceFactors
    /\ stage = "input"
    /\ PolicyIdle
    /\ ScraperIdle
    /\ LinkIdle
    /\ SignalIdle
    /\ MatcherIdle
    /\ AggIdle

\* The caller puts one more source's match into the dict.
AddSourceResult(e) ==
    /\ Len(multi_source_results) < MaxSources
    /\ multi_source_results' =
           Append(multi_source_results,
                  [site |-> SourceKeys[Len(multi_source_results) + 1],
                   product |-> e.product, score |-> e.score, url |-> ""])
    /\ factors' = ConfidenceFactors
    /\ stage' = "input"
    /\ UNCHANGED <<signalVars, matcherVars, current_year, search_name, search_sku, policyVars, scraperVars,
                   linkVars, aggVars>>

CalculateDetailedConfidence ==
    /\ stage = "input"
    /\ factors' = calculate_detailed_confidence(search_name, search_sku,
                                                multi_source_results, current_year)
    /\ stage' = "scored"
    /\ UNCHANGED <<signalVars, matcherVars, current_year, search_name, search_sku, multi_source_results,
                   policyVars, scraperVars, linkVars, aggVars>>

NextConf ==
    \/ \E e \in SourceEntries : AddSourceResult(e)
    \/ CalculateDetailedConfidence

SpecConf == InitConf /\ [][NextConf]_vars

FactorValues(f) ==
    {f.name_match_score, f.sku_match_score, f.data_completeness,
     f.cross_source_validation, f.series_discovery_bonus,
     f.image_quality_bonus, f.year_consistency, f.description_quality}

\* C1: every factor returned by calculate_detailed_confidence and the
\* overall confidence lie in [0, 1].
C1_FactorsBounded ==
    stage = "scored" =>
        /\ \A x \in FactorValues(factors) : InUnit(x)
        /\ InUnit(factors.overall_confidence)

C1_Witness ==
    /\ stage = "scored"
    /\ Len(multi_source_results) >= 2
    /\ factors.data_completeness = ROne
    /\ factors.image_quality_bonus = ROne
    /\ RLt(RZero, factors.cross_source_validation)

\* C2: for a non-empty aggregated result the overall confidence of the
\* returned object is min(1, 0.35 name + 0.15 code + 0.20 completeness
\* + 0.15 cross-source + 0.05 series + 0.05 image + 0.03 year
\* + 0.02 description) of that object's factors, and the eight weights of
\* the calculator sum to exactly 1.
C2_OverallIsWeightedSum ==
    /\ RSumSeq(<<weights.name_match, weights.sku_match,
                 weights.data_completeness, weights.cross_source_validation,
                 weights.series_discovery, weights.image_quality,
                 weights.year_consistency, weights.description_quality>>) = ROne
    /\ (stage = "scored" /\ multi_source_results # << >>) =>
          factors.overall_confidence =
              RMin(ROne,
                   RSumSeq(<<RMul(Rat(35, 100), factors.name_match_score),
                             RMul(Rat(15, 100), factors.sku_match_score),
                             RMul(Rat(20, 100), factors.data_completeness),
                             RMul(Rat(15, 100), factors.cross_source_validation),
                             RMul(Rat(5, 100), factors.series_discovery_bonus),
                             RMul(Rat(5, 100), factors.image_quality_bonus),
                             RMul(Rat(3, 100), factors.year_consistency),
                             RMul(Rat(2, 100), factors.description_quality)>>))
C2_Witness ==
    /\ stage = "scored"
    /\ Len(multi_source_results) >= 2
    /\ RLt(RZero, factors.sku_match_score)
    /\ RLt(RZero, factors.series_discovery_bonus)
    /\ RLt(factors.overall_confidence, ROne)

\* The candidate p agrees with the candidate q: same name, same code, and
\* introduction years within one year of each other (or absent from both).
Agrees(p, q) ==
    /\ p.name = q.name
    /\ p.item_number = q.item_number
    /\ \/ ~YearTruthy(p.intro_year) /\ ~YearTruthy(q.intro_year)
       \/ /\ YearTruthy(p.intro_year)
          /\ YearTruthy(q.intro_year)
          /\ Abs(p.intro_year - q.intro_year) <= 1
Front(seq) == SubSeq(seq, 1, Len(seq) - 1)
LastAgreesWithRest(results) ==
    /\ Len(results) >= 2
    /\ \A i \in 1..(Len(results) - 1) :
          Agrees(results[Len(results)].product, results[i].product)

\* C10: when the source added last agrees with every candidate already in
\* the aggregated result, the cross-source validation and the overall
\* confidence computed on the enlarged result are not lower than those
\* computed on the result without it.
C10_AgreeingSourceNeverLowers ==
    (stage = "scored" /\ LastAgreesWithRest(multi_source_results)) =>
        LET before == calculate_detailed_confidence(
                          search_name, search_sku,
                          Front(multi_source_results), current_year)
        IN  /\ RGe(factors.cross_source_validation,
                   before.cross_source_validation)
            /\ RGe(factors.overall_confidence, before.overall_confidence)

\* ------------------------------------------------------------------------
\* Category and recommendation applied to arbitrary ConfidenceFactors
\* ------------------------------------------------------------------------
\* Confidence values in thousandths, on and next to every threshold.
ProbeThousandths == {0, 499, 500, 699, 700, 799, 800, 899, 900, 1000}
ProbeAgreements == {Rat(1, 2), Rat(51, 100), ROne}
ProbeFactors ==
    {[ConfidenceFactors EXCEPT !.overall_confidence = Rat(k, 1000),
                               !.cross_source_validation = a,
                               !.name_match_score = nm] :
        k \in ProbeThousandths, a \in ProbeAgreements, nm \in {RZero, ROne}}

InitPolicy ==
    /\ probe \in ProbeFactors \X ProbeFactors
    /\ probe_category = <<"", "">>
    /\ probe_recommendation = <<"", "">>
    /\ CalcIdle
    /\ ScraperIdle
    /\ LinkIdle
    /\ SignalIdle
    /\ MatcherIdle
    /\ AggIdle

GetConfidenceCategory(i) ==
    /\ probe_category[i] = ""
    /\ probe_category' =
           [probe_category EXCEPT
               ![i] = get_confidence_category(probe[i].overall_confidence)]
    /\ UNCHANGED <<signalVars, matcherVars, probe, probe_recommendation, calcVars, scraperVars, linkVars, aggVars>>

GetRecommendation(i) ==
    /\ probe_recommendation[i] = ""
    /\ probe_recommendation' =
           [probe_recommendation EXCEPT ![i] = get_recommendation(probe[i])]
    /\ UNCHANGED <<signalVars, matcherVars, probe, probe_category, calcVars, scraperVars, linkVars, aggVars>>

NextPolicy ==
    \/ \E i \in 1..2 : GetConfidenceCategory(i)
    \/ \E i \in 1..2 : GetRecommendation(i)

SpecPolicy == InitPolicy /\ [][NextPolicy]_vars

\* The categories from lowest to highest.
CategoryRank(c) ==
    CASE c = "VERY_POOR" -> 1 [] c = "POOR" -> 2 [] c = "FAIR" -> 3
      [] c = "GOOD" -> 4 [] c = "EXCELLENT" -> 5
\* The category the stated thresholds give to k thousandths.
StatedCategory(x) ==
    IF RGe(x, Rat(90, 100)) THEN "EXCELLENT"
    ELSE IF RGe(x, Rat(80, 100)) THEN "GOOD"
    ELSE IF RGe(x, Rat(70, 100)) THEN "FAIR"
    ELSE IF RGe(x, Rat(50, 100)) THEN "POOR"
    ELSE "VERY_POOR"

\* C3: get_confidence_category gives every confidence in [0, 1] the one
\* category of the thresholds 0.90 / 0.80 / 0.70 / 0.50, and a higher
\* confidence never gets a lower category than a lower confidence.
C3_CategoryThresholdsMonotone ==
    /\ \A i \in 1..2 :
          probe_category[i] # "" =>
              /\ probe_category[i] \in
                     {"EXCELLENT", "GOOD", "FAIR", "POOR", "VERY_POOR"}
              /\ probe_category[i] = StatedCategory(probe[i].overall_confidence)
    /\ (probe_category[1] # "" /\ probe_category[2] # ""
        /\ RLe(probe[1].overall_confidence, probe[2].overall_confidence)) =>
           CategoryRank(probe_category[1]) <= CategoryRank(probe_category[2])
C3_Witness ==
    /\ probe_category[1] = "FAIR"
    /\ probe_category[2] = "EXCELLENT"
    /\ probe[1].overall_confidence = Rat(70, 100)
    /\ probe[2].overall_confidence = Rat(90, 100)

\* The stated recommendation policy on a category and an agreement.
StatedPolicy(category, agreement) ==
    CASE category = "EXCELLENT" ->
             (IF RGt(agreement, Rat(1, 2)) THEN "AUTO_APPROVE"
              ELSE "RECOMMEND_APPROVE")
      [] category = "GOOD" -> "RECOMMEND_APPROVE"
      [] category = "FAIR" -> "MANUAL_REVIEW"
      [] category = "POOR" -> "NEEDS_VERIFICATION"
      [] category = "VERY_POOR" -> "REJECT"

\* C4: get_recommendation(f) is the stated policy applied to the category
\* of f.overall_confidence and to f.cross_source_validation, and two
\* objects with the same category and the same cross-source validation get
\* the same recommendation whatever their other fields.
C4_RecommendationIsPolicy ==
    /\ \A i \in 1..2 :
          (probe_recommendation[i] # "" /\ probe_category[i] # "") =>
              probe_recommendation[i] =
                  StatedPolicy(probe_category[i],
                               probe[i].cross_source_validation)
    /\ (/\ probe_recommendation[1] # "" /\ probe_recommendation[2] # ""
        /\ probe_category[1] # "" /\ probe_category[2] # ""
        /\ probe_category[1] = probe_category[2]
        /\ probe[1].cross_source_validation = probe[2].cross_source_validation)
       => probe_recommendation[1] = probe_recommendation[2]
C4_Witness ==
    /\ probe_category = <<"EXCELLENT", "EXCELLENT">>
    /\ probe_recommendation = <<"AUTO_APPROVE", "AUTO_APPROVE">>
    /\ probe[1].name_match_score # probe[2].name_match_score
    /\ probe[1].overall_confidence # probe[2].overall_confidence

\* ------------------------------------------------------------------------
\* enhanced_sitemap_scraper.py: SitemapBasedScraper
\* ------------------------------------------------------------------------
\* product_urls[:50]
CrawlLimit == 50
\* `combined_score >= 60`
MinScore == 60
\* Variant: the floor ten points lower.
MeetsMinScore_Low(combined_score) == RGe(combined_score, Rat(MinScore - 10, 1))
MeetsMinScore(combined_score) == RGe(combined_score, Rat(MinScore, 1))

\* d[k] = v on a dict kept as a sequence of entries in insertion order.
DictHas(d, k) == \E i \in 1..Len(d) : d[i].site = k
DictSet(d, k, v) ==
    IF DictHas(d, k)
    THEN [i \in 1..Len(d) |-> IF d[i].site = k THEN [site |-> k, products |-> v]
                                               ELSE d[i]]
    ELSE Append(d, [site |-> k, products |-> v])
DictGet(d, k) == (CHOOSE e \in SeqToSet(d) : e.site = k).products

\* An index entry read from a JSON file: a dict, not a ProductData object.
AsDicts(fileProducts) ==
    [i \in 1..Len(fileProducts) |->
        [url |-> fileProducts[i].url, product |-> fileProducts[i].product,
         is_dict |-> TRUE]]

\* _parse_product_page: only the retired-products parser returns a product;
\* the parsers of the other two sites are empty and return None.
ParseProductPage(page, site_name) ==
    IF site_name = "dept56_retired"
    THEN <<[url |-> page.url,
            product |-> [page.product EXCEPT !.source_url = page.url,
                                             !.source_site = "dept56_retired"],
            is_dict |-> FALSE]>>
    ELSE << >>

RECURSIVE ParsePages(_, _)
ParsePages(pages, site_name) ==
    IF pages = << >> THEN << >>
    ELSE ParseProductPage(Head(pages), site_name)
         \o ParsePages(Tail(pages), site_name)

\* _build_site_index: the pages of the sitemap, or nothing when the fetch of
\* the sitemap raises.
BuildSiteIndex(site_name, pages, fetch_ok) ==
    IF fetch_ok
    THEN ParsePages(SubSeq(pages, 1, Min2(Len(pages), CrawlLimit)), site_name)
    ELSE << >>

\* _save_index: the fields written to the cache file.
SavedProducts(entries) ==
    [i \in 1..Len(entries) |->
        [url |-> entries[i].url,
         product |-> [entries[i].product EXCEPT !.dimensions = Empty,
                                                !.additional_images = << >>,
                                                !.source_url = ""]]]

\* build_indices: one pass of the loop over sites, from position i.
RECURSIVE BuildLoop(_, _, _, _, _, _)
BuildLoop(sites, i, force_rebuild, fetch_ok, idx, caches) ==
    IF i > Len(sites) THEN [indices |-> idx, cache_files |-> caches]
    ELSE LET site_name == sites[i]
         IN  IF ~force_rebuild /\ product_index_json.exists
             THEN BuildLoop(sites, i + 1, force_rebuild, fetch_ok,
                            DictSet(idx, site_name,
                                    AsDicts(product_index_json.products)),
                            caches)
             ELSE IF ~force_rebuild /\ caches[site_name].exists
             THEN BuildLoop(sites, i + 1, force_rebuild, fetch_ok,
                            DictSet(idx, site_name,
                                    AsDicts(caches[site_name].products)),
                            caches)
             ELSE LET built == BuildSiteIndex(site_name, web_pages, fetch_ok)
                  IN  BuildLoop(sites, i + 1, force_rebuild, fetch_ok,
                                DictSet(idx, site_name, built),
                                [caches EXCEPT
                                    ![site_name] = FileOf(SavedProducts(built))])

\* The ProductData that search_multi_source stores for an index entry.
MatchedProduct(entry, site_name) ==
    IF entry.is_dict
    THEN [entry.product EXCEPT !.additional_images = << >>,
                               !.source_url = entry.url,
                               !.source_site = site_name]
    ELSE entry.product

\* sku_score of a candidate.
\* Variant: the codes are compared even when one of them is missing.
SkuScore_Unguarded(item_number, product) ==
    FuzzRatio(item_number, product.item_number)
SkuScore(item_number, product) ==
    IF StrTruthy(item_number) /\ StrTruthy(product.item_number)
    THEN FuzzRatio(item_number, product.item_number)
    ELSE RZero
\* combined_score of one search term and one candidate.
\* Variant: the lower of the two scores instead of the higher.
CombinedScore_Min(search_term, item_number, product) ==
    LET name_score == TokenSortRatio(Lower(search_term), Lower(product.name))
        sku_score == SkuScore(item_number, product)
    IN  RMin(name_score, sku_score)
CombinedScore(search_term, item_number, product) ==
    LET name_score == TokenSortRatio(Lower(search_term), Lower(product.name))
        sku_score == SkuScore(item_number, product)
    IN  RMax(name_score, sku_score)

SearchTerms(item_name, item_number) ==
    IF StrTruthy(item_number) THEN <<item_name, item_number>> ELSE <<item_name>>

NoMatch ==
    [found |-> FALSE, score |-> RZero, url |-> "",
     product |-> ProductData(Empty, Empty, NoYear, NoYear, Empty, Empty, Empty,
                             << >>, Empty, Empty)]

\* The two nested loops over the candidates of one site and the search
\* terms: candidate i, term t, best match so far.
RECURSIVE ScanSite(_, _, _, _, _, _, _)
ScanSite(site_name, entries, item_name, item_number, i, t, best) ==
    LET terms == SearchTerms(item_name, item_number)
    IN  IF i > Len(entries) THEN best
        ELSE IF t > Len(terms)
             THEN ScanSite(site_name, entries, item_name, item_number,
                           i + 1, 1, best)
        ELSE LET combined_score ==
                     CombinedScore(terms[t], item_number, entries[i].product)
                 next ==
                     IF /\ RGt(combined_score, best.score)
                        /\ MeetsMinScore(combined_score)
                     THEN [found |-> TRUE, score |-> combined_score,
                           url |-> entries[i].url,
                           product |-> MatchedProduct(entries[i], site_name)]
                     ELSE best
             IN  ScanSite(site_name, entries, item_name, item_number,
                          i, t + 1, next)

RECURSIVE SearchLoop(_, _, _, _, _)
SearchLoop(idx, item_name, item_number, i, results) ==
    IF i > Len(idx) THEN results
    ELSE LET best == ScanSite(idx[i].site, idx[i].products, item_name,
                              item_number, 1, 1, NoMatch)
         IN  SearchLoop(idx, item_name, item_number, i + 1,
                        IF best.found
                        THEN Append(results,
                                    [site |-> idx[i].site,
                                     product |-> best.product,
                                     score |-> best.score, url |-> best.url])
                        ELSE results)

search_multi_source(idx, item_name, item_number) ==
    SearchLoop(idx, item_name, item_number, 1, << >>)

\* ------------------------------------------------------------------------
\* Building the indices and searching them
\* ------------------------------------------------------------------------
\* A product whose page title is an item number.
ProductCodeName ==
    ProductData(StrSku5612, Empty, NoYear, NoYear, Empty,
                Empty, Empty, << >>, Empty, Empty)
\* Another name carrying the code 56.12.
ProductCoded ==
    ProductData(StrToyShop, StrSku5612, 2006, NoYear, StrDescShort,
                Empty, StrUrl, << >>, Empty, Empty)
\* A name just under the floor for the query "Elf Inn".
ProductNear ==
    ProductData(StrElfPub, Empty, NoYear, NoYear, Empty,
                Empty, Empty, << >>, Empty, Empty)
\* What the retired-products parser can extract from a page.
PageSign ==
    ProductData(StrElfInnSign, StrSku5613, 2006, 2008, StrDescShort,
                Empty, StrUrl, << >>, Empty, StrSnow)

Entry(u, p) == [url |-> u, product |-> p]
SharedIndexChoices ==
    {NoFile, FileOf(<<Entry("u1", ProductLate), Entry("u2", ProductFull)>>)}
CacheChoices ==
    [s \in SiteNames |->
        CASE s = "dept56_official" ->
                 {NoFile,
                  FileOf(<<Entry("u3", ProductBare), Entry("u4", ProductNear)>>),
                  FileOf(<<Entry("u5", ProductCodeName)>>)}
          [] s = "dept56_retired" ->
                 {NoFile,
                  FileOf(<<Entry("u6", ProductNear), Entry("u7", ProductOdd)>>)}
          [] s = "replacements" ->
                 {NoFile, FileOf(<< >>), FileOf(<<Entry("u8", ProductCoded)>>)}]
WebChoices == {<< >>, <<Entry("u9", PageSign), Entry("u10", ProductPlain)>>}
\* The site lists build_indices is called with (None means all of SITES).
BuildSiteLists == {SITES, <<"dept56_retired">>}

InitSearch ==
    /\ current_year \in ClockYears
    /\ search_name \in QueryNames
    /\ search_sku \in QuerySkus
    /\ multi_source_results = << >>
    /\ factors = ConfidenceFactors
    /\ stage = "start"
    /\ product_index_json \in SharedIndexChoices
    /\ cache_files \in [SiteNames -> UNION {CacheChoices[s] : s \in SiteNames}]
    /\ \A s \in SiteNames : cache_files[s] \in CacheChoices[s]
    /\ web_pages \in WebChoices
    /\ indices = << >>
    /\ PolicyIdle
    /\ LinkIdle
    /\ SignalIdle
    /\ MatcherIdle
    /\ AggIdle

\* build_indices(sites, force_rebuild); results of earlier searches are
\* dropped by the caller.
BuildIndices(sites, force_rebuild, fetch_ok) ==
    LET out == BuildLoop(sites, 1, force_rebuild, fetch_ok, indices, cache_files)
    IN  /\ indices' = out.indices
        /\ cache_files' = out.cache_files
        /\ multi_source_results' = << >>
        /\ factors' = ConfidenceFactors
        /\ stage' = "start"
        /\ UNCHANGED <<signalVars, matcherVars, current_year, search_name, search_sku,
                       product_index_json, web_pages, policyVars, linkVars, aggVars>>

\* results = search_multi_source(item_name, item_number)
SearchMultiSource ==
    /\ multi_source_results' = search_multi_source(indices, search_name, search_sku)
    /\ factors' = ConfidenceFactors
    /\ stage' = "input"
    /\ UNCHANGED <<signalVars, matcherVars, current_year, search_name, search_sku, scraperVars, policyVars,
                   linkVars, aggVars>>

NextSearch ==
    \/ \E sites \in BuildSiteLists, force_rebuild \in BOOLEAN, fetch_ok \in BOOLEAN :
          BuildIndices(sites, force_rebuild, fetch_ok)
    \/ SearchMultiSource
    \/ CalculateDetailedConfidence

SpecSearch == InitSearch /\ [][NextSearch]_vars

Searched == stage \in {"input", "scored"}
ResultSites == {multi_source_results[i].site : i \in 1..Len(multi_source_results)}
IndexSites == {indices[i].site : i \in 1..Len(indices)}
CandidatesOf(s) == SeqToSet(DictGet(indices, s))

\* Similarity of the query name and the candidate's name, and of the query
\* code and the candidate's code (0 when either code is missing).
StatedNameScore(e) == TokenSortRatio(Lower(search_name), Lower(e.product.name))
StatedCodeScore(e) ==
    IF StrTruthy(search_sku) /\ StrTruthy(e.product.item_number)
    THEN FuzzRatio(search_sku, e.product.item_number) ELSE RZero
\* max(name_score, code_score) as stated.
StatedCombined(e) == RMax(StatedNameScore(e), StatedCodeScore(e))
\* The same with the query code also compared, as a search term, with the
\* candidate's name.
TermCombined(e) ==
    IF StrTruthy(search_sku)
    THEN RMax(StatedCombined(e),
              TokenSortRatio(Lower(search_sku), Lower(e.product.name)))
    ELSE StatedCombined(e)

OneMatchPerSource ==
    \A i, j \in 1..Len(multi_source_results) :
        multi_source_results[i].site = multi_source_results[j].site => i = j
BestOfOwnIndex(Combined(_)) ==
    \A i \in 1..Len(multi_source_results) :
        LET r == multi_source_results[i]
        IN  /\ r.site \in IndexSites
            /\ \E e \in CandidatesOf(r.site) :
                  /\ e.url = r.url
                  /\ e.product.name = r.product.name
                  /\ e.product.item_number = r.product.item_number
                  /\ r.score = Combined(e)
            /\ RGe(r.score, Rat(60, 1))
            /\ RLe(r.score, Rat(100, 1))
            /\ \A e \in CandidatesOf(r.site) : RLe(Combined(e), r.score)

\* C5 as stated: at most one match per source, and each match is a candidate
\* of its source's own index recorded with max(name_score, code_score), which
\* lies in [60, 100] and which no other candidate of the source exceeds.
C5_Stated == Searched => (OneMatchPerSource /\ BestOfOwnIndex(StatedCombined))

\* C5 (amended): the same with the combined score of a candidate taken as
\* the highest max(name_score, code_score) over the search terms, the query
\* code being compared with the candidate's name as well.
C5_BestCandidatePerSource ==
    Searched => (OneMatchPerSource /\ BestOfOwnIndex(TermCombined))
C5_Witness ==
    /\ Searched
    /\ Len(multi_source_results) = 3
    /\ \E i \in 1..3 :
          /\ RLt(multi_source_results[i].score, Rat(100, 1))
          /\ Cardinality(CandidatesOf(multi_source_results[i].site)) >= 2
    /\ \E i, j \in 1..3 :
          multi_source_results[i].product.name # multi_source_results[j].product.name

SourcePresentIffAboveFloor(Combined(_)) ==
    \A s \in SiteNames :
        s \in ResultSites <=>
            /\ s \in IndexSites
            /\ \E e \in CandidatesOf(s) : RGe(Combined(e), Rat(60, 1))
EmptyResultRejected ==
    (stage = "scored" /\ multi_source_results = << >>) =>
        /\ factors.overall_confidence = RZero
        /\ get_confidence_category(factors.overall_confidence) = "VERY_POOR"
        /\ get_recommendation(factors) = "REJECT"

\* C6 as stated: a source is in the result exactly when one of its candidates
\* has max(name_score, code_score) >= 60, and the confidence of an empty
\* result is 0.0, VERY_POOR, REJECT.
C6_Stated ==
    /\ Searched => SourcePresentIffAboveFloor(StatedCombined)
    /\ EmptyResultRejected

\* C6 (amended): the same with the combined score taken over the search
\* terms, the query code being compared with the candidate's name as well.
C6_SourcePresentIffAboveFloor ==
    /\ Searched => SourcePresentIffAboveFloor(TermCombined)
    /\ EmptyResultRejected
C6_Witness ==
    /\ stage = "scored"
    /\ multi_source_results = << >>
    /\ Len(indices) = 3
    /\ \E i \in 1..3 : indices[i].products = << >>
    /\ \E i \in 1..3 : Len(indices[i].products) = 2

\* The index with the code of every candidate rewritten: codes[1] for the
\* candidates at odd positions of their site, codes[2] for the others.
RecodedIndex(idx, codes) ==
    [i \in 1..Len(idx) |->
        [idx[i] EXCEPT !.products =
            [k \in 1..Len(idx[i].products) |->
                [idx[i].products[k] EXCEPT !.product.item_number =
                                               codes[2 - (k % 2)]]]]]
CodeRewritings ==
    {<<Empty, Empty>>, <<StrSku5612, StrSku5612>>, <<StrSku4025, Empty>>,
     <<Empty, StrSku5613>>}
\* The same sources, the same candidates and the same scores.
SameMatches(r1, r2) ==
    /\ Len(r1) = Len(r2)
    /\ \A i \in 1..Len(r1) :
           /\ r1[i].site = r2[i].site
           /\ r1[i].url = r2[i].url
           /\ r1[i].score = r2[i].score
           /\ [r1[i].product EXCEPT !.item_number = Empty]
                  = [r2[i].product EXCEPT !.item_number = Empty]
\* C15: for a query without a code, search_multi_source returns the same
\* sources, the same chosen candidates and the same scores on every index
\* that differs from the present one only in the codes of its candidates.
C15_NoCodeIgnoresCandidateCodes ==
    (Searched /\ ~StrTruthy(search_sku)) =>
        \A codes \in CodeRewritings :
            SameMatches(search_multi_source(RecodedIndex(indices, codes),
                                            search_name, search_sku),
                        multi_source_results)
\* A query without a code that matched, in two sources, a candidate carrying
\* a code and a candidate carrying none.
C15_Witness ==
    /\ Searched
    /\ ~StrTruthy(search_sku)
    /\ \E i, j \in 1..Len(multi_source_results) :
           /\ StrTruthy(multi_source_results[i].product.item_number)
           /\ ~StrTruthy(multi_source_results[j].product.item_number)

\* ------------------------------------------------------------------------
\* The linker: a houses table that grows, loads of the cache, and calls of
\* find_compatible_houses
\* ------------------------------------------------------------------------
\* The most rows the houses table holds.
MaxHouses == 3

\* "Series: North Pole Series. Collection: Snow Village"
NotesSeriesAndCollection == <<83, 101, 114, 105, 101, 115, 58, 32, 78, 111, 114, 116, 104, 32, 80, 111, 108, 101, 32, 83, 101, 114, 105, 101, 115, 46, 32, 67, 111, 108, 108, 101, 99, 116, 105, 111, 110, 58, 32, 83, 110, 111, 119, 32, 86, 105, 108, 108, 97, 103, 101>>
\* "Series: North Pole"
NotesSeriesShort == <<83, 101, 114, 105, 101, 115, 58, 32, 78, 111, 114, 116, 104, 32, 80, 111, 108, 101>>
\* "Collection: Snow Village. Includes toy sled"
NotesCollectionIncludes == <<67, 111, 108, 108, 101, 99, 116, 105, 111, 110, 58, 32, 83, 110, 111, 119, 32, 86, 105, 108, 108, 97, 103, 101, 46, 32, 73, 110, 99, 108, 117, 100, 101, 115, 32, 116, 111, 121, 32, 115, 108, 101, 100>>
\* "From the North Pole Series. Collection: Snow Village"
NotesFromThe == <<70, 114, 111, 109, 32, 116, 104, 101, 32, 78, 111, 114, 116, 104, 32, 80, 111, 108, 101, 32, 83, 101, 114, 105, 101, 115, 46, 32, 67, 111, 108, 108, 101, 99, 116, 105, 111, 110, 58, 32, 83, 110, 111, 119, 32, 86, 105, 108, 108, 97, 103, 101>>
\* "Village Animated Neon Sign"
StrNeonSign == <<86, 105, 108, 108, 97, 103, 101, 32, 65, 110, 105, 109, 97, 116, 101, 100, 32, 78, 101, 111, 110, 32, 83, 105, 103, 110>>
\* "Toy Sled"
StrToySled == <<84, 111, 121, 32, 83, 108, 101, 100>>
\* "Goes with Elf Inn."
StrGoesWith == <<71, 111, 101, 115, 32, 119, 105, 116, 104, 32, 69, 108, 102, 32, 73, 110, 110, 46>>
\* "4026"
StrSku4026 == <<52, 48, 50, 54>>

HouseRow(id, name, year, sku, notes) ==
    [id |-> id, name |-> name, year |-> year, sku |-> sku, notes |-> notes]
\* The rows the store can hold; "h1" and "h2" carry the same labels in
\* differently worded notes.
HouseRows ==
    {HouseRow("h1", StrElfInn, 2006, StrSku5612, NotesSeriesAndCollection),
     HouseRow("h2", StrElfInn, 2006, StrSku5612, NotesFromThe),
     HouseRow("h3", StrElfPub, 2010, StrSku4025, NotesSeriesShort),
     HouseRow("h4", StrToyShop, NoYear, Empty, NotesCollectionIncludes)}
\* The accessories handed to the linker.
Accessories ==
    {AccessoryData(StrElfInnSign, StrSku5613, 2006, StrGoesWith, StrNorthPole, StrSnow),
     AccessoryData(StrNeonSign, Empty, NoYear, Empty, StrNorthPole, Empty),
     AccessoryData(StrToySled, StrSku4026, 2011, Empty, StrSnow, StrSnow)}

InitLink ==
    /\ LinkIdle
    /\ SignalIdle
    /\ MatcherIdle
    /\ AggIdle
    /\ CalcIdle
    /\ PolicyIdle
    /\ ScraperIdle

\* Another process inserts a row into the houses table.
StoreInsert(row) ==
    /\ Len(houses_table) < MaxHouses
    /\ \A k \in 1..Len(houses_table) : houses_table[k].id # row.id
    /\ houses_table' = Append(houses_table, row)
    /\ UNCHANGED <<signalVars, matcherVars, houses_cache, accessory, matches,
                   cache_loaded, batch_results, calcVars, policyVars, scraperVars, aggVars>>

\* await linker.load_houses_cache(); results computed from the previous
\* cache are dropped by the caller.
LoadHousesCache(query_ok) ==
    /\ houses_cache' = load_houses_cache(houses_table, query_ok)
    /\ accessory' = NoAccessory
    /\ matches' = << >>
    /\ cache_loaded' = TRUE
    /\ batch_results' = << >>
    /\ UNCHANGED <<signalVars, matcherVars, houses_table, calcVars, policyVars, scraperVars, aggVars>>

\* matches = await linker.find_compatible_houses(acc); the store is queried
\* only when the cache is empty.
FindCompatibleHouses(acc, query_ok) ==
    LET cache == IF houses_cache = << >>
                 THEN load_houses_cache(houses_table, query_ok)
                 ELSE houses_cache
    IN  /\ houses_cache # << >> => query_ok
        /\ houses_cache' = cache
        /\ accessory' = acc
        /\ matches' = RankHouses(cache, acc)
        /\ cache_loaded' = (cache_loaded \/ houses_cache = << >>)
        /\ UNCHANGED batch_results
        /\ UNCHANGED <<signalVars, matcherVars, houses_table, calcVars, policyVars, scraperVars, aggVars>>

NextLink ==
    \/ \E row \in HouseRows : StoreInsert(row)
    \/ \E query_ok \in BOOLEAN : LoadHousesCache(query_ok)
    \/ \E acc \in Accessories, query_ok \in BOOLEAN : FindCompatibleHouses(acc, query_ok)

SpecLink == InitLink /\ [][NextLink]_vars

\* find_compatible_houses has returned for the accessory in `accessory`.
Linked == accessory # NoAccessory
\* The position of a house in the cache (ids are the table's key).
CachePos(house) == CHOOSE k \in 1..Len(houses_cache) : houses_cache[k].id = house.id

\* C7: no match returned by find_compatible_houses has a score below 0.3,
\* and none has a score above 1.0.
C7_ScoreWithinFloorAndOne ==
    Linked => \A k \in 1..Len(matches) :
                  /\ RGe(matches[k].match_score, Rat(3, 10))
                  /\ RLe(matches[k].match_score, ROne)
\* A call that returned a match while discarding a cached house whose score
\* is positive yet below the floor.
C7_Witness ==
    /\ Linked
    /\ matches # << >>
    /\ \E k \in 1..Len(houses_cache) :
           LET sc == calculate_compatibility_score(houses_cache[k], accessory).score
           IN  RGt(sc, RZero) /\ RLt(sc, Rat(3, 10))

\* C8: the returned list is in non-increasing order of score, and matches of
\* equal score stand in the order of their houses in the cache.
C8_SortedStable ==
    Linked => \A i \in 1..Len(matches) : \A j \in (i + 1)..Len(matches) :
                  /\ RGe(matches[i].match_score, matches[j].match_score)
                  /\ matches[i].match_score = matches[j].match_score
                         => CachePos(matches[i].house) < CachePos(matches[j].house)
\* A returned list with two matches of equal score and a third of another
\* score.
C8_Witness ==
    /\ Linked
    /\ \E i, j, k \in 1..Len(matches) :
           /\ i < j
           /\ matches[i].match_score = matches[j].match_score
           /\ matches[k].match_score # matches[i].match_score

\* The reason texts that belong to each of the six signals.
SignalTexts ==
    <<{"Same series: ", "Similar series: "}, {"Same collection: "},
      {"Name contains house reference", "Name similarity detected"},
      {"Description indicates compatibility"}, {"Introduced in similar years"},
      {"Similar item numbers"}>>
\* The signals with a non-zero sub-score, in the fixed order.
RECURSIVE NonZeroSignals(_, _)
NonZeroSignals(sub, k) ==
    IF k > Len(sub) THEN << >>
    ELSE (IF sub[k] # RZero THEN <<k>> ELSE << >>) \o NonZeroSignals(sub, k + 1)
\* C9: the reasons of every returned match are one per signal with a
\* non-zero sub-score, none for a signal scoring zero, in the order series,
\* collection, name, description, year, item number; so no reason list is
\* empty.
C9_OneReasonPerSignal ==
    Linked => \A k \in 1..Len(matches) :
                  LET m == matches[k]
                      nz == NonZeroSignals(SignalScores(m.house, m.accessory), 1)
                  IN  /\ Len(m.match_reasons) = Len(nz)
                      /\ \A r \in 1..Len(nz) :
                             m.match_reasons[r].text \in SignalTexts[nz[r]]
                      /\ m.match_reasons # << >>
\* A returned match whose series sub-score is a fuzzy similarity below 0.8
\* and which has some signal scoring zero.
C9_Witness ==
    /\ Linked
    /\ \E k \in 1..Len(matches) :
           LET sub == SignalScores(matches[k].house, matches[k].accessory)
           IN  /\ RGt(sub[1], RZero) /\ RLt(sub[1], Rat(8, 10))
               /\ \E q \in 1..6 : sub[q] = RZero

\* C18: every cached house whose combined score is at least 0.3, a score of
\* exactly 0.3 included, appears in the list find_compatible_houses returns.
C18_AtFloorKept ==
    Linked => \A k \in 1..Len(houses_cache) :
                  RGe(calculate_compatibility_score(houses_cache[k], accessory).score,
                      Rat(3, 10))
                      => \E m \in 1..Len(matches) :
                             matches[m].house.id = houses_cache[k].id

\* ------------------------------------------------------------------------
\* The combined score as a function of the six sub-scores
\* ------------------------------------------------------------------------
\* Values the six scoring helpers return: an exact and a fuzzy series match,
\* an exact collection match, a name containment, a compatibility phrase, the
\* same year and years five apart, a shared item-number prefix.
SignalValues ==
    <<{RZero, Rat(3, 4), ROne}, {RZero, ROne}, {RZero, Rat(9, 10)},
      {RZero, Rat(9, 10)}, {RZero, Rat(1, 5), ROne}, {RZero, Rat(4, 5)}>>
SignalVectors == {sub \in [1..6 -> UNION {SignalValues[k] : k \in 1..6}] :
                     \A k \in 1..6 : sub[k] \in SignalValues[k]}

InitSignals ==
    /\ signal_probe \in SignalVectors \X SignalVectors
    /\ signal_scores = << >>
    /\ MatcherIdle
    /\ AggIdle
    /\ LinkIdle
    /\ CalcIdle
    /\ PolicyIdle
    /\ ScraperIdle

\* The score part of _calculate_compatibility_score, for each vector.
CalculateCompatibilityScore ==
    /\ signal_scores = << >>
    /\ signal_scores' = <<CompatibilityScore(signal_probe[1]),
                          CompatibilityScore(signal_probe[2])>>
    /\ UNCHANGED <<signal_probe, matcherVars, linkVars, calcVars, policyVars,
                   scraperVars, aggVars>>

NextSignals == CalculateCompatibilityScore

SpecSignals == InitSignals /\ [][NextSignals]_vars

SignalsScored == signal_scores # << >>
\* No sub-score of the first vector is below that of the second.
NowhereLower(a, b) == \A k \in 1..6 : RGe(a[k], b[k])
\* b is a with exactly one sub-score raised.
OneRaised(a, b) ==
    \E k \in 1..6 : RGt(b[k], a[k]) /\ \A q \in (1..6) \ {k} : b[q] = a[q]
NonZeroSet(sub) == {k \in 1..6 : sub[k] # RZero}

\* C11 as stated: raising one sub-score never lowers the score, and a pair
\* whose non-zero signals include those of another never scores lower,
\* whatever the strengths of the signals.
C11_Stated ==
    SignalsScored =>
        /\ OneRaised(signal_probe[1], signal_probe[2])
               => RGe(signal_scores[2], signal_scores[1])
        /\ NonZeroSet(signal_probe[1]) \subseteq NonZeroSet(signal_probe[2])
               => RGe(signal_scores[2], signal_scores[1])
\* C11: raising any one of the six sub-scores with the others equal never
\* lowers match_score, and a pair whose non-zero signals include those of
\* another, each shared signal being at least as strong, never scores lower.
C11_MonotoneInSignals ==
    SignalsScored =>
        /\ OneRaised(signal_probe[1], signal_probe[2])
               => RGe(signal_scores[2], signal_scores[1])
        /\ (/\ NonZeroSet(signal_probe[1]) \subseteq NonZeroSet(signal_probe[2])
            /\ NowhereLower(signal_probe[2], signal_probe[1]))
               => RGe(signal_scores[2], signal_scores[1])
\* A fuzzy series match gains a collection match and scores strictly higher.
C11_Witness ==
    /\ SignalsScored
    /\ signal_probe[1][1] = Rat(3, 4)
    /\ signal_probe[1][2] = RZero
    /\ OneRaised(signal_probe[1], signal_probe[2])
    /\ signal_probe[2][2] = ROne
    /\ RGt(signal_scores[2], signal_scores[1])

\* ------------------------------------------------------------------------
\* fuzzy_matcher.py: FuzzyMatcher._normalize_text
\* ------------------------------------------------------------------------
\* str.replace(old, new): the non-overlapping occurrences, left to right.
RECURSIVE ReplaceFrom(_, _, _, _)
ReplaceFrom(s, i, old, new) ==
    IF i > Len(s) THEN << >>
    ELSE IF StartsAt(s, i, old) THEN new \o ReplaceFrom(s, i + Len(old), old, new)
    ELSE <<s[i]>> \o ReplaceFrom(s, i + 1, old, new)
Replace(s, old, new) == ReplaceFrom(s, 1, old, new)
\* re.sub(r'[^\w\s\-\.]', ' ', text)
SubPunctuation(s) ==
    [i \in 1..Len(s) |->
        IF IsWordChar(s[i]) \/ IsSpace(s[i]) \/ s[i] = 45 \/ s[i] = 46
        THEN s[i] ELSE 32]
\* re.sub(r'\s+', ' ', text)
RECURSIVE SubSpacesFrom(_, _)
SubSpacesFrom(s, i) ==
    IF i > Len(s) THEN << >>
    ELSE IF ~IsSpace(s[i]) THEN <<s[i]>> \o SubSpacesFrom(s, i + 1)
    ELSE IF i > 1 /\ IsSpace(s[i - 1]) THEN SubSpacesFrom(s, i + 1)
    ELSE <<32>> \o SubSpacesFrom(s, i + 1)
SubSpaces(s) == SubSpacesFrom(s, 1)

StrDepartment56 == <<100, 101, 112, 97, 114, 116, 109, 101, 110, 116, 32, 53, 54>>
StrDept56 == <<100, 101, 112, 116, 32, 53, 54>>
StrDeptDot == <<100, 101, 112, 116, 46>>
StrDept == <<100, 101, 112, 116>>
StrAposS == <<39, 115>>
StrApos == <<39>>
StrQuote == <<34>>
normalize_text(text) ==
    IF text = << >> THEN << >>
    ELSE LET t1 == Replace(Lower(text), StrDepartment56, StrDept56)
             t2 == Replace(t1, StrDeptDot, StrDept)
             t3 == Replace(t2, StrAposS, <<115>>)
             t4 == Replace(t3, StrApos, << >>)
             t5 == Replace(t4, StrQuote, << >>)
         IN  Strip(SubSpaces(SubPunctuation(t5)))

\* Strings of up to MaxTokens pieces: the rewritten tokens and the characters
\* the normalisation removes or merges.
MaxTokens == 4
StrDepartment == <<100, 101, 112, 97, 114, 116, 109, 101, 110, 116>>
Str56 == <<53, 54>>
NormTokens ==
    {StrDepartment, StrDept, Str56, <<32>>, <<46>>, StrApos, <<115>>,
     StrQuote, <<44>>}
RECURSIVE Concat(_)
Concat(pieces) ==
    IF pieces = << >> THEN << >> ELSE Head(pieces) \o Concat(Tail(pieces))
NormInputs ==
    {Concat(pieces) : pieces \in UNION {[1..n -> NormTokens] : n \in 0..MaxTokens}}

InitNormalize ==
    /\ norm_input \in NormInputs
    /\ norm_output = << >>
    /\ min_match_score = 60
    /\ search_data = << >>
    /\ match_query = NoQuery
    /\ match_result = NoResult
    /\ AggIdle
    /\ SignalIdle
    /\ LinkIdle
    /\ CalcIdle
    /\ PolicyIdle
    /\ ScraperIdle

\* self._normalize_text applied to the input, then to its own result.
NormalizeText ==
    /\ Len(norm_output) < 2
    /\ norm_output' =
           Append(norm_output,
                  normalize_text(IF norm_output = << >> THEN norm_input
                                 ELSE norm_output[Len(norm_output)]))
    /\ UNCHANGED <<norm_input, min_match_score, search_data, match_query,
                   match_result, signalVars, linkVars, calcVars, policyVars,
                   scraperVars, aggVars>>

NextNormalize == NormalizeText

SpecNormalize == InitNormalize /\ [][NextNormalize]_vars

\* C12: normalising a normalised string changes nothing:
\* _normalize_text(_normalize_text(x)) = _normalize_text(x) for every x.
C12_NormalizeIdempotent ==
    Len(norm_output) = 2 => norm_output[2] = norm_output[1]

\* ------------------------------------------------------------------------
\* The confidence calculator called again as the calendar advances
\* ------------------------------------------------------------------------
\* The last calendar year the clock reaches.
LastClockYear == 2027
\* A listing announced for next year.
ProductNext ==
    ProductData(StrElfInn, StrSku5612, 2027, NoYear, StrDescShort,
                Empty, StrUrl, << >>, Empty, Empty)
\* A listing retired before it was introduced.
ProductBackward ==
    ProductData(StrElfInn, StrSku5612, 2006, 2000, StrDescShort,
                Empty, StrUrl, << >>, Empty, Empty)
ClockEntries ==
    {[product |-> ProductPlain, score |-> Rat(100, 1)],
     [product |-> ProductNext, score |-> Rat(100, 1)],
     [product |-> ProductBackward, score |-> Rat(100, 1)]}

InitClock == InitConf

\* New Year's Eve passes: datetime.now().year is one more.
ClockTick ==
    /\ current_year < LastClockYear
    /\ current_year' = current_year + 1
    /\ UNCHANGED <<search_name, search_sku, multi_source_results, factors, stage,
                   policyVars, scraperVars, linkVars, signalVars, matcherVars, aggVars>>

\* A second invocation with the inputs of the first.
CalculateDetailedConfidenceAgain ==
    /\ stage = "scored"
    /\ factors' = calculate_detailed_confidence(search_name, search_sku,
                                                multi_source_results, current_year)
    /\ UNCHANGED <<current_year, search_name, search_sku, multi_source_results,
                   stage, policyVars, scraperVars, linkVars, signalVars,
                   matcherVars, aggVars>>

NextClock ==
    \/ \E e \in ClockEntries : AddSourceResult(e)
    \/ CalculateDetailedConfidence
    \/ CalculateDetailedConfidenceAgain
    \/ ClockTick

SpecClock == InitClock /\ [][NextClock]_vars

\* C13: an invocation with the search name, search code and aggregated
\* result of the previous one returns the ConfidenceFactors the previous one
\* returned, whatever the date of the call.
C13_SameInputsSameFactors ==
    [][(/\ stage = "scored"
        /\ stage' = "scored"
        /\ search_name' = search_name
        /\ search_sku' = search_sku
        /\ multi_source_results' = multi_source_results)
           => factors' = factors]_vars

\* ------------------------------------------------------------------------
\* A linking session over sparse records, with batches
\* ------------------------------------------------------------------------
\* A row without a name, and an accessory without one.
SessionRows ==
    {HouseRow("h1", StrElfInn, 2006, StrSku5612, NotesSeriesAndCollection),
     HouseRow("h5", Empty, 2006, StrSku5612, NotesSeriesShort)}
SessionAccessories ==
    {AccessoryData(StrElfInnSign, StrSku5613, 2006, StrGoesWith, StrNorthPole, StrSnow),
     AccessoryData(Empty, StrSku5613, 2006, Empty, StrNorthPole, Empty)}
\* The lists of accessories handed to batch_link_accessories.
MaxBatch == 2
Batches == UNION {[1..n -> SessionAccessories] : n \in 0..MaxBatch}

\* results[acc_name] = matches[:5]
RECURSIVE BatchResults(_, _, _, _)
BatchResults(cache, accs, i, results) ==
    IF i > Len(accs) THEN results
    ELSE LET ranked == RankHouses(cache, accs[i])
             entry == [name |-> accs[i].name,
                       matches |-> SubSeq(ranked, 1, Min2(5, Len(ranked)))]
             hit == {k \in 1..Len(results) : results[k].name = accs[i].name}
         IN  BatchResults(cache, accs, i + 1,
                          IF hit = {} THEN Append(results, entry)
                          ELSE [results EXCEPT ![SetMin(hit)] = entry])

InitSession == InitLink

\* results = await linker.batch_link_accessories(accs): the cache is loaded
\* when it is empty, then every accessory goes through
\* find_compatible_houses; query_ok is whether the store answers meanwhile.
BatchLinkAccessories(accs, query_ok) ==
    LET cache == IF houses_cache = << >>
                 THEN load_houses_cache(houses_table, query_ok)
                 ELSE houses_cache
    IN  /\ houses_cache # << >> => query_ok
        /\ houses_cache' = cache
        /\ cache_loaded' = (cache_loaded \/ houses_cache = << >>)
        /\ batch_results' = BatchResults(cache, accs, 1, << >>)
        /\ accessory' = IF accs = << >> THEN NoAccessory ELSE accs[Len(accs)]
        /\ matches' = IF accs = << >> THEN << >>
                      ELSE RankHouses(cache, accs[Len(accs)])
        /\ UNCHANGED <<houses_table, calcVars, policyVars, scraperVars,
                       signalVars, matcherVars, aggVars>>

NextSession ==
    \/ \E row \in SessionRows : StoreInsert(row)
    \/ \E query_ok \in BOOLEAN : LoadHousesCache(query_ok)
    \/ \E acc \in SessionAccessories, query_ok \in BOOLEAN :
           FindCompatibleHouses(acc, query_ok)
    \/ \E accs \in Batches, query_ok \in BOOLEAN : BatchLinkAccessories(accs, query_ok)

SpecSession == InitSession /\ [][NextSession]_vars

\* C14: once load_houses_cache has run, only another explicit
\* load_houses_cache changes houses_cache: no find_compatible_houses and no
\* batch_link_accessories call does.
C14_CacheLoadedOnce ==
    [][(cache_loaded /\ ~(\E query_ok \in BOOLEAN : LoadHousesCache(query_ok)))
           => houses_cache' = houses_cache]_vars

\* ------------------------------------------------------------------------
\* The confidence calculator on results whose candidates carry the query's
\* name, with and without its code
\* ------------------------------------------------------------------------
\* The query's name and code and nothing else.
ProductSparse ==
    ProductData(StrElfInn, StrSku5612, NoYear, NoYear, Empty,
                Empty, Empty, << >>, Empty, Empty)
\* The query's name with another code and an early year.
ProductRecoded ==
    ProductData(StrElfInn, StrSku4025, 1999, NoYear, StrDescShort,
                Empty, StrUrl, << >>, Empty, Empty)
ScenarioEntries ==
    {[product |-> ProductFull, score |-> Rat(100, 1)],
     [product |-> ProductPlain, score |-> Rat(100, 1)],
     [product |-> ProductSparse, score |-> Rat(100, 1)],
     [product |-> ProductRecoded, score |-> Rat(100, 1)]}

InitScenario == InitConf

NextScenario ==
    \/ \E e \in ScenarioEntries : AddSourceResult(e)
    \/ CalculateDetailedConfidence

SpecScenario == InitScenario /\ [][NextScenario]_vars

\* Source i returned a candidate with exactly the query's name and code.
ExactSource(i) ==
    /\ multi_source_results[i].product.name = search_name
    /\ multi_source_results[i].product.item_number = search_sku
TwoExactSources ==
    /\ stage = "scored"
    /\ StrTruthy(search_name)
    /\ StrTruthy(search_sku)
    /\ Len(multi_source_results) = 2
    /\ ExactSource(1)
    /\ ExactSource(2)
\* C16 as stated: two sources with exactly the query's name and code give
\* name match 1.0, code match 1.0, cross-source validation >= 0.6, overall
\* confidence >= 0.85, category GOOD or EXCELLENT and recommendation
\* RECOMMEND_APPROVE or AUTO_APPROVE, whatever the candidates' other fields.
C16_Stated ==
    TwoExactSources =>
        /\ factors.name_match_score = ROne
        /\ factors.sku_match_score = ROne
        /\ RGe(factors.cross_source_validation, Rat(6, 10))
        /\ RGe(factors.overall_confidence, Rat(85, 100))
        /\ get_confidence_category(factors.overall_confidence) \in {"GOOD", "EXCELLENT"}
        /\ get_recommendation(factors) \in {"RECOMMEND_APPROVE", "AUTO_APPROVE"}

\* The aggregated result with the code of source i's candidate removed.
WithoutCode(results, i) == [results EXCEPT ![i].product.item_number = Empty]
C16_TwoExactSources ==
    TwoExactSources =>
        /\ factors.name_match_score = ROne
        /\ factors.sku_match_score = ROne
        /\ RGe(factors.cross_source_validation, Rat(6, 10))
        /\ RGe(factors.overall_confidence, Rat(53, 80))
        /\ (/\ factors.data_completeness = ROne
            /\ RGe(factors.image_quality_bonus, Rat(7, 10))
            /\ RGe(factors.year_consistency, Rat(5, 10)))
               => /\ RGe(factors.overall_confidence, Rat(85, 100))
                  /\ get_confidence_category(factors.overall_confidence)
                         \in {"GOOD", "EXCELLENT"}
                  /\ get_recommendation(factors)
                         \in {"RECOMMEND_APPROVE", "AUTO_APPROVE"}
\* Two exact sources, one of them carrying nothing but the name and the
\* code, that reach an overall confidence of 0.85.
C16_Witness ==
    /\ TwoExactSources
    /\ \E i \in 1..2 : ~StrTruthy(multi_source_results[i].product.description)
    /\ factors.data_completeness = ROne
    /\ RGe(factors.overall_confidence, Rat(85, 100))

\* No other source of the result carries the query's code.
OnlyCodeBearer(i) ==
    /\ multi_source_results[i].product.item_number = search_sku
    /\ \A k \in (1..Len(multi_source_results)) \ {i} :
           Lower(multi_source_results[k].product.item_number) # Lower(search_sku)
C19_EmptyNameScoresZero ==
    Linked => \A k \in 1..Len(houses_cache) :
                  (houses_cache[k].name = Empty \/ accessory.name = Empty) =>
                      /\ score_name_patterns(houses_cache[k], accessory) = RZero
                      /\ \A m \in 1..Len(matches) :
                             matches[m].house.id = houses_cache[k].id =>
                                 \A r \in 1..Len(matches[m].match_reasons) :
                                     matches[m].match_reasons[r].text
                                         \notin SignalTexts[3]

\* ------------------------------------------------------------------------
\* scraper.py and fuzzy_matcher.py: the configured threshold and match
\* ------------------------------------------------------------------------
\* _build_search_index: the named products of the index, in its order.
RECURSIVE BuildSearchIndex(_, _)
BuildSearchIndex(index, i) ==
    IF i > Len(index) THEN << >>
    ELSE (IF StrTruthy(index[i].name)
          THEN <<[url |-> index[i].url, name |-> index[i].name,
                  sku |-> index[i].sku,
                  normalized_name |-> normalize_text(index[i].name),
                  normalized_sku |-> IF StrTruthy(index[i].sku)
                                     THEN normalize_text(index[i].sku)
                                     ELSE << >>]>>
          ELSE << >>)
         \o BuildSearchIndex(index, i + 1)
\* process.extractOne(query, names, scorer=fuzz.token_sort_ratio): the index
\* of the first name with the highest score.
NameScore(data, normalized_query, i) ==
    TokenSortRatio(normalized_query, data[i].normalized_name)
ExtractOne(data, normalized_query) ==
    CHOOSE i \in 1..Len(data) :
        \A j \in 1..Len(data) :
            /\ RGe(NameScore(data, normalized_query, i),
                   NameScore(data, normalized_query, j))
            /\ j < i => RGt(NameScore(data, normalized_query, i),
                            NameScore(data, normalized_query, j))
\* best_match[1] >= min_score, the score being at least 0.
ScoreAtLeast(score, min_score) ==
    IF min_score <= 0 THEN TRUE ELSE RGe(score, Rat(min_score, 1))
\* Strategy 3 of match: the best fuzzy match, if it reaches min_score.
FuzzyMatch(data, normalized_query, normalized_sku, min_score) ==
    LET best_idx == ExtractOne(data, normalized_query)
        score == NameScore(data, normalized_query, best_idx)
        item_sku == data[best_idx].normalized_sku
        confidence == RMin(RDivInt(score, 100), Rat(9, 10))
    IN  IF ~ScoreAtLeast(score, min_score) THEN NoResult
        ELSE [matched |-> TRUE, url |-> data[best_idx].url,
              confidence |->
                  IF /\ normalized_sku # << >>
                     /\ item_sku # << >>
                     /\ \/ Contains(normalized_sku, item_sku)
                        \/ Contains(item_sku, normalized_sku)
                  THEN RMin(RAdd(confidence, Rat(5, 100)), ROne)
                  ELSE confidence]
\* Variant: the exact name is tried before the exact item number.
match_NameFirst(data, query_name, query_sku, min_score) ==
    LET normalized_query == normalize_text(query_name)
        normalized_sku == IF StrTruthy(query_sku) THEN normalize_text(query_sku)
                          ELSE << >>
        sku_hits == {i \in 1..Len(data) : data[i].normalized_sku = normalized_sku}
        name_hits == {i \in 1..Len(data) : data[i].normalized_name = normalized_query}
    IN  IF data = << >> THEN NoResult
        ELSE IF name_hits # {}
        THEN [matched |-> TRUE, url |-> data[SetMin(name_hits)].url,
              confidence |-> Rat(95, 100)]
        ELSE IF normalized_sku # << >> /\ sku_hits # {}
        THEN [matched |-> TRUE, url |-> data[SetMin(sku_hits)].url,
              confidence |-> ROne]
        ELSE FuzzyMatch(data, normalized_query, normalized_sku, min_score)
match(data, query_name, query_sku, min_score) ==
    LET normalized_query == normalize_text(query_name)
        normalized_sku == IF StrTruthy(query_sku) THEN normalize_text(query_sku)
                          ELSE << >>
        sku_hits == {i \in 1..Len(data) : data[i].normalized_sku = normalized_sku}
        name_hits == {i \in 1..Len(data) : data[i].normalized_name = normalized_query}
    IN  IF data = << >> THEN NoResult
        ELSE IF normalized_sku # << >> /\ sku_hits # {}
        THEN [matched |-> TRUE, url |-> data[SetMin(sku_hits)].url,
              confidence |-> ROne]
        ELSE IF name_hits # {}
        THEN [matched |-> TRUE, url |-> data[SetMin(name_hits)].url,
              confidence |-> Rat(95, 100)]
        ELSE FuzzyMatch(data, normalized_query, normalized_sku, min_score)

\* "Department 56 Elf Inn"
StrDept56ElfInn == <<68, 101, 112, 97, 114, 116, 109, 101, 110, 116, 32, 53, 54, 32, 69, 108, 102, 32, 73, 110, 110>>
IndexEntry(url, name, sku) == [url |-> url, name |-> name, sku |-> sku]
\* product_index.json as the matcher receives it.
MatcherIndexes ==
    {<< >>,
     <<IndexEntry("u1", StrElfInn, StrSku5612), IndexEntry("u2", Empty, StrSku4025),
       IndexEntry("u3", StrToyShop, Empty)>>,
     <<IndexEntry("u4", StrElfInnSign, StrSku56123),
       IndexEntry("u5", StrElfPub, StrSku4025), IndexEntry("u6", StrElfInn, Empty)>>}
\* "Toy"
StrToy == <<84, 111, 121>>
MatcherQueries ==
    [name : {StrElfInn, StrInnElf, StrDept56ElfInn, StrSnow, StrToySled, StrToy},
     sku : {Empty, StrSku5612, StrSku4025}]
\* The values of the --min-score option.
MinScoreChoices == {-10, 0, 60, 90}

\* Dept56Scraper(min_match_score=...) constructed and, in match_houses,
\* FuzzyMatcher(self.index).
InitMatch ==
    /\ min_match_score \in MinScoreChoices
    /\ \E index \in MatcherIndexes : search_data = BuildSearchIndex(index, 1)
    /\ match_query = NoQuery
    /\ match_result = NoResult
    /\ norm_input = << >>
    /\ norm_output = << >>
    /\ AggIdle
    /\ SignalIdle
    /\ LinkIdle
    /\ CalcIdle
    /\ PolicyIdle
    /\ ScraperIdle

\* One item of match_batch: self.match(name, sku, min_score) with the
\* scraper's threshold.
Match(query) ==
    /\ match_query' = query
    /\ match_result' = match(search_data, query.name, query.sku, min_match_score)
    /\ UNCHANGED <<min_match_score, search_data, norm_input, norm_output,
                   signalVars, linkVars, calcVars, policyVars, scraperVars, aggVars>>

NextMatch == \E query \in MatcherQueries : Match(query)

SpecMatch == InitMatch /\ [][NextMatch]_vars

\* C20: under a negative minimum-score threshold no item is ever scored.
C20_NegativeThresholdRejected ==
    min_match_score < 0 => ~match_result.matched


\* match has been called with the query in match_query.
Matched == match_query # NoQuery
QueryName == normalize_text(match_query.name)
QuerySku ==
    IF StrTruthy(match_query.sku) THEN normalize_text(match_query.sku) ELSE << >>
SkuHits == {i \in 1..Len(search_data) :
               QuerySku # << >> /\ search_data[i].normalized_sku = QuerySku}
NameHits == {i \in 1..Len(search_data) : search_data[i].normalized_name = QueryName}
\* The highest fuzzy score of the query name over the index.
BestFuzzyScore ==
    RMaxSeq([i \in 1..Len(search_data) |-> NameScore(search_data, QueryName, i)])
\* The entries the result may be: those with the returned url.
ResultEntries == {i \in 1..Len(search_data) : search_data[i].url = match_result.url}
\* The strategies in their order, with the confidence of the fuzzy strategy
\* bounded below by Low (strictly when Strict).
StrategiesInOrder(Strict) ==
    Matched =>
        IF search_data = << >> THEN ~match_result.matched
        ELSE IF SkuHits # {}
        THEN /\ match_result.matched
             /\ match_result.confidence = ROne
             /\ ResultEntries \subseteq SkuHits
        ELSE IF NameHits # {}
        THEN /\ match_result.matched
             /\ match_result.confidence = Rat(95, 100)
             /\ ResultEntries \subseteq NameHits
        ELSE /\ match_result.matched
                   <=> ScoreAtLeast(BestFuzzyScore, min_match_score)
             /\ match_result.matched =>
                   /\ \A i \in ResultEntries :
                          NameScore(search_data, QueryName, i) = BestFuzzyScore
                   /\ RLe(match_result.confidence, Rat(95, 100))
                   /\ Strict => RGt(match_result.confidence, RZero)
Scored == stage = "scored"
Sources == 1..Len(multi_source_results)
CodeOf(i) == Lower(multi_source_results[i].product.item_number)
CodeBearing == {i \in Sources : multi_source_results[i].product.item_number # Empty}
ExactCodes == {i \in CodeBearing : CodeOf(i) = Lower(search_sku)}
PartialCodes ==
    {i \in CodeBearing \ ExactCodes :
        Contains(CodeOf(i), Lower(search_sku)) \/ Contains(Lower(search_sku), CodeOf(i))}
\* The results of the code-bearing sources only, in their order.
RECURSIVE OnlyCodeBearing(_)
OnlyCodeBearing(results) ==
    IF results = << >> THEN << >>
    ELSE (IF Head(results).product.item_number # Empty THEN <<Head(results)>>
          ELSE << >>) \o OnlyCodeBearing(Tail(results))
\* C22: sku_match_score is (exact matches + 0.5 * partial matches) over the
\* number of sources that carry a code; it is 0 when the query has no code
\* or no source carries one; sources without a code do not change it.
C22_SkuMatchIsRate ==
    Scored =>
        /\ factors.sku_match_score =
               IF search_sku = Empty \/ CodeBearing = {} THEN RZero
               ELSE Rat(2 * Cardinality(ExactCodes) + Cardinality(PartialCodes),
                        2 * Cardinality(CodeBearing))
        /\ factors.sku_match_score =
               calculate_sku_match(search_sku, OnlyCodeBearing(multi_source_results))
\* An exact, a partial and a missing code in one result: the score is 3/4.
C22_Witness ==
    /\ Scored
    /\ ExactCodes # {}
    /\ PartialCodes # {}
    /\ CodeBearing # Sources
    /\ factors.sku_match_score = Rat(3, 4)


\* The sources whose match has the highest similarity score.
BestSources ==
    {i \in Sources : \A k \in Sources :
        RGe(multi_source_results[i].score, multi_source_results[k].score)}
\* C23: data_completeness is the completeness of the best candidate, the
\* match with the highest similarity score: min(1, required fraction +
\* 0.2 * optional fraction) of that candidate, whatever the fields of the
\* lower-scoring candidates.
C23_CompletenessOfBestCandidate ==
    (Scored /\ multi_source_results # << >>) =>
        \E i \in BestSources :
            factors.data_completeness =
                RMin(RAdd(RequiredScore(multi_source_results[i].product),
                          OptionalBonus(multi_source_results[i].product)), ROne)


\* The year consistency of the result's first candidate with its years
\* replaced.
YearConsistencyWith(intro_year, retire_year) ==
    calculate_year_consistency(
        <<[multi_source_results[1] EXCEPT !.product.intro_year = intro_year,
                                          !.product.retire_year = retire_year]>>,
        current_year)
InRangeYears == {y \in dept56_founded..current_year : y \in {dept56_founded, 2006}}
\* C24: a candidate retired before its introduction never has a higher
\* year_consistency than the same candidate without the retirement year,
\* and a candidate with an introduction year out of range never has a higher
\* one than the same candidate with an introduction year in range.
C24_YearsRewardedWhenConsistent ==
    (Scored /\ Len(multi_source_results) = 1) =>
        LET p == multi_source_results[1].product
        IN  /\ (/\ YearTruthy(p.intro_year)
                /\ YearTruthy(p.retire_year)
                /\ p.retire_year < p.intro_year)
                   => RLe(factors.year_consistency,
                          YearConsistencyWith(p.intro_year, NoYear))
            /\ (/\ YearTruthy(p.intro_year)
                /\ (p.intro_year < dept56_founded \/ p.intro_year > current_year))
                   => \A y \in InRangeYears :
                          RLe(factors.year_consistency,
                              YearConsistencyWith(y, p.retire_year))


\* ------------------------------------------------------------------------
\* The label signals and the confidence level of the returned matches
\* ------------------------------------------------------------------------
\* The similarity of two labels, ignoring case, in [0, 1].
LabelSimilarity(a, b) == RDivInt(TokenSortRatio(Lower(a), Lower(b)), 100)
\* The sub-score the rule gives two labels.
StatedLabelScore(a, b) ==
    IF a = Empty \/ b = Empty THEN RZero
    ELSE IF Lower(a) = Lower(b) THEN ROne
    ELSE IF RGe(LabelSimilarity(a, b), Rat(7, 10)) THEN LabelSimilarity(a, b)
    ELSE RZero
InZeroOrAboveFloor(x) == x = RZero \/ (RGe(x, Rat(7, 10)) /\ RLe(x, ROne))
\* C25: for every cached house and the accessory of the call, the series
\* sub-score is 1.0 for labels equal ignoring case, the similarity when it
\* is at least 0.7, and 0 otherwise; the collection sub-score follows the
\* same rule on the collection labels, whatever the series labels.
C25_LabelScores ==
    Linked => \A k \in 1..Len(houses_cache) :
        LET house == houses_cache[k]
            sub == SignalScores(house, accessory)
        IN  /\ sub[1] = StatedLabelScore(house.series, accessory.discovered_series)
            /\ sub[2] = StatedLabelScore(house.collection,
                                         accessory.discovered_collection)
            /\ InZeroOrAboveFloor(sub[1])
            /\ InZeroOrAboveFloor(sub[2])
            /\ \A label \in {Empty, StrSnow} :
                   score_collection_match(
                       [house EXCEPT !.series = label],
                       [accessory EXCEPT !.discovered_series = label]) = sub[2]
\* A call whose cache holds a house with the accessory's series and one
\* with a similar series.
C25_Witness ==
    /\ Linked
    /\ \E k \in 1..Len(houses_cache) :
           score_series_match(houses_cache[k], accessory) = ROne
    /\ \E k \in 1..Len(houses_cache) :
           LET x == score_series_match(houses_cache[k], accessory)
           IN  RGe(x, Rat(7, 10)) /\ RLt(x, ROne)

\* C26: no returned match is labelled VERY_LOW; the label of each is
\* VERY_HIGH from 0.85, HIGH from 0.70, MEDIUM from 0.55 and LOW below; a
\* house matched by an exact series label alone (score 0.4) is returned
\* with the label LOW.
C26_NoVeryLowReturned ==
    Linked =>
        /\ \A m \in 1..Len(matches) :
               LET x == matches[m].match_score
               IN  /\ matches[m].confidence_level # "VERY_LOW"
                   /\ matches[m].confidence_level =
                          IF RGe(x, Rat(85, 100)) THEN "VERY_HIGH"
                          ELSE IF RGe(x, Rat(70, 100)) THEN "HIGH"
                          ELSE IF RGe(x, Rat(55, 100)) THEN "MEDIUM"
                          ELSE "LOW"
                   /\ matches[m].confidence_level = "LOW" => RGe(x, Rat(40, 100))
        /\ \A k \in 1..Len(houses_cache) :
               SignalScores(houses_cache[k], accessory)
                       = <<ROne, RZero, RZero, RZero, RZero, RZero>>
                   => \E m \in 1..Len(matches) :
                          /\ matches[m].house.id = houses_cache[k].id
                          /\ matches[m].match_score = Rat(4, 10)
                          /\ matches[m].confidence_level = "LOW"

\* ------------------------------------------------------------------------
\* multi_source_scraper.py: MultiSourceScraper
\* ------------------------------------------------------------------------
\* ScrapedItem(name=title, source_site=site): every other field at its
\* default.
ScrapedItem(name, site) ==
    [ProductData(name, Empty, NoYear, NoYear, Empty, Empty, Empty, << >>,
                 Empty, Empty) EXCEPT !.source_site = site]
\* No product in the page a site answers with.
NoListing == [name |-> Empty]
\* The listing of a site whose title carries the maker's name.
ProductDept56 ==
    ProductData(StrDept56ElfInn, StrSku5612, NoYear, NoYear, Empty,
                Empty, Empty, << >>, Empty, Empty)
ProductDept56Recoded ==
    ProductData(StrDept56ElfInn, StrSku5613, NoYear, NoYear, Empty,
                Empty, Empty, << >>, Empty, Empty)
\* What each site may answer a search with: one listed product and the
\* content of its product page.
SitePages ==
    [dept56_retired |-> {NoListing, ProductFull, ProductPlain, ProductBare},
     dept56_official |-> {NoListing, ProductFull, ProductLate},
     replacements |-> {NoListing, ProductDept56, ProductDept56Recoded}]
PageChoices ==
    {<<a, b, c>> : a \in SitePages.dept56_retired,
                   b \in SitePages.dept56_official,
                   c \in SitePages.replacements}
NoItem == [name |-> Empty, source_site |-> ""]
StrDepartment56Query == <<68, 101, 112, 97, 114, 116, 109, 101, 110, 116, 32, 53, 54, 32>>

\* _search_dept56_retired: the listed title is kept from a score of 60 and
\* the product page fills in the details.
search_dept56_retired(page, item_name, item_number) ==
    LET search_query == IF StrTruthy(item_number) THEN item_number ELSE item_name
    IN  IF page = NoListing THEN NoItem
        ELSE IF RGe(TokenSortRatio(Lower(search_query), Lower(page.name)), Rat(60, 1))
             THEN [page EXCEPT !.source_site = "dept56_retired"]
             ELSE NoItem
\* _search_dept56_official: the same search; its detail extraction is empty.
search_dept56_official(page, item_name, item_number) ==
    LET search_query == IF StrTruthy(item_number) THEN item_number ELSE item_name
    IN  IF page = NoListing THEN NoItem
        ELSE IF RGe(TokenSortRatio(Lower(search_query), Lower(page.name)), Rat(60, 1))
             THEN ScrapedItem(page.name, "dept56_official")
             ELSE NoItem
\* _search_replacements: the query is prefixed, titles without the maker's
\* name are skipped, the floor is 50 and the page gives the item number.
search_replacements(page, item_name, item_number) ==
    LET search_query ==
            StrDepartment56Query \o
                (IF StrTruthy(item_number) THEN item_number ELSE item_name)
    IN  IF page = NoListing THEN NoItem
        ELSE IF /\ Contains(StrDepartment56, Lower(page.name))
                /\ RGe(TokenSortRatio(Lower(search_query), Lower(page.name)), Rat(50, 1))
             THEN [ScrapedItem(page.name, "replacements")
                       EXCEPT !.item_number = page.item_number]
             ELSE NoItem

\* The loop of _aggregate_results that keeps the first item of the highest
\* name score above 0: <<best_name_score, best_match>>.
RECURSIVE BestByName(_, _, _, _)
BestByName(item_name, results, i, best) ==
    IF i > Len(results) THEN best
    ELSE LET name_score ==
                 RDivInt(TokenSortRatio(Lower(item_name),
                                        Lower(results[i].item.name)), 100)
         IN  BestByName(item_name, results, i + 1,
                        IF RGt(name_score, best[1])
                        THEN <<name_score, results[i].item>> ELSE best)
CrossSourceScore(results) ==
    IF Len(results) > 1
    THEN LET names == [i \in 1..Len(results) |-> results[i].item.name]
             item_numbers ==
                 {results[i].item.item_number : i \in
                      {j \in 1..Len(results) :
                           StrTruthy(results[j].item.item_number)}}
             name_agreement ==
                 Rat(Cardinality({i \in 2..Len(names) :
                                      RGt(FuzzRatio(names[1], names[i]), Rat(80, 1))}),
                     Max2(Len(names) - 1, 1))
             number_agreement ==
                 IF Cardinality(item_numbers) <= 1 /\ item_numbers # {}
                 THEN ROne ELSE Rat(1, 2)
         IN  RDivInt(RAdd(name_agreement, number_agreement), 2)
    ELSE RZero
DetailsScore(best_match) ==
    IF best_match = NoItem THEN RZero
    ELSE LET available_fields ==
                 Bit(StrTruthy(best_match.item_number))
                 + Bit(StrTruthy(best_match.description))
                 + Bit(YearTruthy(best_match.intro_year))
                 + Bit(StrTruthy(best_match.primary_image_url))
         IN  RAdd(RAdd(Rat(available_fields, 4),
                       IF StrTruthy(best_match.discovered_series)
                          \/ StrTruthy(best_match.discovered_collection)
                       THEN Rat(1, 10) ELSE RZero),
                  IF Len(best_match.additional_images) > 0
                  THEN Rat(5, 100) ELSE RZero)
\* _aggregate_results; results is the dict as the sequence of its
\* [key, item] pairs in insertion order.
aggregate_results(item_name, results) ==
    IF results = << >>
    THEN [all_sources |-> << >>, best_match |-> ScrapedItem(item_name, ""),
          overall_confidence |-> RZero, name_match_score |-> RZero,
          details_confidence |-> RZero, cross_source_validation |-> RZero]
    ELSE LET best == BestByName(item_name, results, 1, <<RZero, NoItem>>)
             cross_source_score == CrossSourceScore(results)
             details_score == DetailsScore(best[2])
             overall_confidence ==
                 RAdd(RAdd(RMul(best[1], Rat(1, 2)),
                           RMul(details_score, Rat(3, 10))),
                      RMul(cross_source_score, Rat(2, 10)))
         IN  [all_sources |-> results,
              best_match |-> IF best[2] = NoItem
                             THEN ScrapedItem(item_name, "") ELSE best[2],
              overall_confidence |-> RMin(overall_confidence, ROne),
              name_match_score |-> best[1],
              details_confidence |-> details_score,
              cross_source_validation |-> cross_source_score]

\* The tasks of search_all_sources: one search per enabled site, in the
\* order of self.sites.
SearchOf(k, pages, item_name, item_number) ==
    IF ScraperSites[k] = "dept56_retired"
    THEN search_dept56_retired(pages[k], item_name, item_number)
    ELSE IF ScraperSites[k] = "dept56_official"
    THEN search_dept56_official(pages[k], item_name, item_number)
    ELSE search_replacements(pages[k], item_name, item_number)
RECURSIVE Tasks(_, _, _, _, _)
Tasks(enabled, pages, item_name, item_number, k) ==
    IF k > Len(ScraperSites) THEN << >>
    ELSE (IF enabled[k] THEN <<SearchOf(k, pages, item_name, item_number)>>
          ELSE << >>)
         \o Tasks(enabled, pages, item_name, item_number, k + 1)
\* The loop over the tasks: the result of task i, when there is one, is
\* stored under list(self.sites.keys())[i].
RECURSIVE CollectResults(_, _)
CollectResults(tasks, i) ==
    IF i > Len(tasks) THEN << >>
    ELSE (IF tasks[i] # NoItem
          THEN <<[key |-> ScraperSites[i], item |-> tasks[i]]>> ELSE << >>)
         \o CollectResults(tasks, i + 1)

InitMulti ==
    /\ CalcIdle
    /\ PolicyIdle
    /\ ScraperIdle
    /\ LinkIdle
    /\ SignalIdle
    /\ MatcherIdle
    /\ AggIdle
\* scraper.sites[site]['enabled'] is set by the caller.
SetEnabled(k, b) ==
    /\ sites_enabled[k] # b
    /\ sites_enabled' = [sites_enabled EXCEPT ![k] = b]
    /\ UNCHANGED <<calcVars, policyVars, scraperVars, linkVars, signalVars,
                   matcherVars, ms_result>>
\* search_all_sources: the tasks, the loop over them and the aggregation.
SearchAllSources(pages, item_name, item_number) ==
    /\ search_name' = item_name
    /\ search_sku' = item_number
    /\ \E tasks \in {Tasks(sites_enabled, pages, item_name, item_number, 1)} :
       \E results \in {CollectResults(tasks, 1)} :
           ms_result' = aggregate_results(item_name, results)
    /\ UNCHANGED <<current_year, multi_source_results, factors, stage,
                   policyVars, scraperVars, linkVars, signalVars, matcherVars,
                   sites_enabled>>
NextMulti ==
    \/ \E k \in 1..Len(ScraperSites), b \in BOOLEAN : SetEnabled(k, b)
    \/ \E pages \in PageChoices, item_name \in QueryNames,
          item_number \in QuerySkus :
           SearchAllSources(pages, item_name, item_number)
SpecMulti == InitMulti /\ [][NextMulti]_vars

\* A search has been aggregated.
Aggregated == search_name # Empty
SiteIndex(site) == CHOOSE k \in 1..Len(ScraperSites) : ScraperSites[k] = site

\* C27: every score of the aggregated result (name_match_score,
\* details_confidence, cross_source_validation, overall_confidence) lies
\* in [0, 1], whatever the sites returned.
C27_AggregateScoresInUnit ==
    Aggregated =>
        /\ InUnit(ms_result.name_match_score)
        /\ InUnit(ms_result.details_confidence)
        /\ InUnit(ms_result.cross_source_validation)
        /\ InUnit(ms_result.overall_confidence)

\* C28: a search stores each result under the site that produced it: every
\* key of the result map is an enabled site and the item stored under it
\* names that site as its source_site.
C28_ResultsUnderOwnSite ==
    [][sites_enabled' = sites_enabled =>
           \A i \in 1..Len(ms_result'.all_sources) :
               LET e == ms_result'.all_sources[i]
               IN  /\ e.item.source_site = e.key
                   /\ sites_enabled[SiteIndex(e.key)]]_vars

\* ------------------------------------------------------------------------
\* Where the records of a site's index come from
\* ------------------------------------------------------------------------
\* The records a site's own cache file holds or its own catalog yields.
OwnRecords(site_name) ==
    SeqToSet(AsDicts(cache_files[site_name].products))
        \cup SeqToSet(BuildSiteIndex(site_name, web_pages, TRUE))

\* C29: after build_indices the index of a site holds only records loaded
\* from that site's own cache or crawled from its own catalog, and no two
\* sites hold the index of one shared file.
C29_IndexHoldsOwnRecords ==
    /\ \A i \in 1..Len(indices) :
           SeqToSet(indices[i].products) \subseteq OwnRecords(indices[i].site)
    /\ \A i, j \in 1..Len(indices) :
           (i # j /\ product_index_json.exists)
               => ~(/\ indices[i].products = AsDicts(product_index_json.products)
                    /\ indices[j].products = AsDicts(product_index_json.products))

====
